---------------------------- MODULE CharDrivers ----------------------------
(***************************************************************************)
(* The drivers of document/chardev: my_chrdev.c, my_create_attr.c,         *)
(* my_create_group_attr.c and sleepy.c, which all ask for device number    *)
(* 255:0, three of them for class "chardev0", and go on when a call fails; *)
(* and my_misc.c, which leaves the number to the misc core and goes to its *)
(* error labels.  Their init and exit functions run step by step, beside   *)
(* each other and beside the processes that open the device or are in its  *)
(* attributes (DeviceAttrs).  The kernel's registries are modelled from    *)
(* the calls the drivers make.                                             *)
(***************************************************************************)
EXTENDS DeviceAttrs

CONSTANTS
  Drivers,     \* the modules that may be loaded
  OneAtATime,  \* TRUE: a module is loaded only when no other one is
  EarlyAccess, \* TRUE: users are in the attributes before init has returned
  MayFail,     \* the calls of init that may fail whatever is registered
  MaxCdevs     \* bound: no insmod once this many cdevs are registered

WithAttrs == {"my_create_attr", "my_create_group_attr", "my_misc"}

ASSUME DriversAssumption ==
  /\ Drivers \subseteq WithAttrs \cup {"my_chrdev", "sleepy"}
  /\ OneAtATime \in BOOLEAN /\ EarlyAccess \in BOOLEAN /\ MaxCdevs \in Nat
  /\ MayFail \subseteq {"region", "cdev", "class", "device", "misc", "attrs", "pdata"}
  /\ NoOne \notin Drivers
  /\ OneAtATime \/ Cardinality(Drivers \cap WithAttrs) < 2

VARIABLES
  mod,      \* per driver: "unloaded", "init", "live", "exit", or "dead" (oops)
  todo,     \* per driver: the calls its init or exit function has yet to make
  failed,   \* the drivers whose rc is not 0
  ptr,      \* per driver: which of "my_class" and "dev" are there, and "error" if
            \* a call of its init has returned NULL or an ERR_PTR
  pdata,    \* the drivers whose private data is allocated
  region,   \* who has registered the device number
  cdevs,    \* whose cdevs are registered for it; an open gets the first one
  class,    \* per class name, who has created it
  node,     \* who has created the device of that number
  misc,     \* whose misc device is registered
  attrs,    \* the drivers whose sysfs attributes are there
  drvdata,  \* the drivers whose device has its private data
  file,     \* per process, the driver whose device it has open
  private   \* the processes whose open file has a private_data that is not NULL

loaderVars == <<mod, todo, failed, ptr, pdata>>
kernelVars == <<region, cdevs, class, node, misc, attrs, drvdata>>
userVars == <<file, private, attrVars>>
vars == <<loaderVars, kernelVars, userVars>>

ClassName(d) == IF d = "sleepy" THEN "sleepy" ELSE "chardev0"

Init ==
  /\ mod = [d \in Drivers |-> "unloaded"]
  /\ todo = [d \in Drivers |-> <<>>]
  /\ failed = {}
  /\ ptr = [d \in Drivers |-> {}]
  /\ pdata = {}
  /\ region = NoOne
  /\ cdevs = <<>>
  /\ class = [c \in {"chardev0", "sleepy"} |-> NoOne]
  /\ node = NoOne /\ misc = {}
  /\ attrs = {}
  /\ drvdata = {}
  /\ file = [p \in Proc |-> NoOne]
  /\ private = {}
  /\ AttrsInit

-----------------------------------------------------------------------------
\* The calls of the init functions, in order ...
InitCalls(d) ==
  CASE d = "my_misc" -> <<"misc", "attrs", "pdata", "drvdata">>
    [] d = "my_chrdev" -> <<"region", "cdev", "class", "device", "pdata">>
    [] d = "sleepy" -> <<"region", "cdev", "class", "device">>
    [] OTHER -> <<"region", "cdev", "class", "device", "attrs", "pdata", "drvdata">>

\* ... and of the exit functions.
ExitCalls_no_device(d) ==
  IF d = "my_misc" THEN <<"misc">> ELSE <<"class", "cdev", "region", "pdata">>

ExitCalls_class_first(d) ==
  IF d = "my_misc" THEN <<"misc">> ELSE <<"class", "device", "cdev", "region", "pdata">>

ExitCalls_free_first(d) ==
  IF d = "my_misc" THEN <<"pdata", "misc">>
  ELSE <<"pdata", "device", "class", "cdev", "region">>

ExitCalls(d) ==
  CASE d = "my_misc" -> <<"misc">>
    [] d = "sleepy" -> <<"device", "class", "cdev", "region">>
    [] d = "my_create_group_attr" ->
         <<"attrs", "device", "class", "cdev", "region", "pdata">>
    [] OTHER -> <<"device", "class", "cdev", "region", "pdata">>

\* The statics of the module are zeroed: what an earlier load has left in memory is
\* out of its reach.  Not modelled: insmod of my_misc on top of the misc device of a failed load.
insmod(d) ==
  /\ mod[d] = "unloaded"
  /\ OneAtATime => \A e \in Drivers : mod[e] = "unloaded"
  /\ Len(cdevs) < MaxCdevs /\ d \notin misc
  /\ mod' = [mod EXCEPT ![d] = "init"]
  /\ todo' = [todo EXCEPT ![d] = InitCalls(d)]
  /\ ptr' = [ptr EXCEPT ![d] = {}]
  /\ failed' = failed \ {d}
  /\ IF d \in WithAttrs THEN NoData ELSE UNCHANGED dataVars
  /\ UNCHANGED <<pdata, kernelVars, file, private, dev, at, beside>>

\* A module that has live files is pinned by .owner in its file_operations.
chrdev_fops_owner == TRUE

rmmod(d) ==
  /\ mod[d] = "live"
  /\ ~(chrdev_fops_owner /\ \E p \in Proc : file[p] = d)
  /\ mod' = [mod EXCEPT ![d] = "exit"]
  /\ todo' = [todo EXCEPT ![d] = ExitCalls(d)]
  /\ UNCHANGED <<failed, ptr, pdata, kernelVars, userVars>>

\* Module d, in phase "init" or "exit", makes its next call.
Call(d, phase, name) ==
  /\ mod[d] = phase
  /\ todo[d] # <<>> /\ Head(todo[d]) = name
  /\ todo' = [todo EXCEPT ![d] = Tail(@)]

\* The init function of d fails at its next call and goes to its error label.
GiveUp(d) ==
  /\ todo' = [todo EXCEPT ![d] = <<>>]
  /\ failed' = failed \cup {d}

\* The init function returns rc; if it is not 0 the loader drops the module, and its
\* statics with it.
init_return(d) ==
  /\ mod[d] = "init" /\ todo[d] = <<>>
  /\ mod' = [mod EXCEPT ![d] = IF d \in failed THEN "unloaded" ELSE "live"]
  /\ ptr' = IF d \in failed THEN [ptr EXCEPT ![d] = {}] ELSE ptr
  /\ UNCHANGED <<todo, failed, pdata, kernelVars, userVars>>

exit_return_early(d) ==
  /\ mod[d] = "exit"
  /\ mod' = [mod EXCEPT ![d] = "unloaded"]
  /\ ptr' = [ptr EXCEPT ![d] = {}]
  /\ UNCHANGED <<todo, failed, pdata, kernelVars, userVars>>

exit_return(d) ==
  /\ mod[d] = "exit" /\ todo[d] = <<>>
  /\ mod' = [mod EXCEPT ![d] = "unloaded"]
  /\ ptr' = [ptr EXCEPT ![d] = {}]
  /\ UNCHANGED <<todo, failed, pdata, kernelVars, userVars>>

-----------------------------------------------------------------------------
\* rc = register_chrdev_region: the number may be taken, be it by a driver that is
\* not modelled.
register_chrdev_region_unchecked(d) ==
  /\ Call(d, "init", "region")
  /\ region' = IF region = NoOne THEN d ELSE region
  /\ UNCHANGED <<mod, failed, ptr, pdata, cdevs, class, node, misc, attrs, drvdata, userVars>>

register_chrdev_region(d) ==
  /\ Call(d, "init", "region")
  /\ \/ region = NoOne /\ region' = d /\ UNCHANGED failed
     \/ /\ region # NoOne \/ "region" \in MayFail
        /\ failed' = failed \cup {d} /\ UNCHANGED region
  /\ UNCHANGED <<mod, ptr, pdata, cdevs, class, node, misc, attrs, drvdata, userVars>>

\* A call of d's init returns NULL or an ERR_PTR.
GetsError(d) == ptr' = [ptr EXCEPT ![d] = @ \cup {"error"}]
Crashes(d) == mod' = [mod EXCEPT ![d] = "dead"]

\* cdev_alloc, whose NULL is followed at once, cdev_init, cdev_add: does not ask
\* who has the number.
cdev_add(d) ==
  /\ Call(d, "init", "cdev")
  /\ \/ cdevs' = <<d>> \o cdevs /\ UNCHANGED <<mod, ptr>>
     \/ "cdev" \in MayFail /\ GetsError(d) /\ Crashes(d) /\ UNCHANGED cdevs
  /\ UNCHANGED <<failed, pdata, region, class, node, misc, attrs, drvdata, userVars>>

\* class_create: an ERR_PTR if there is a class of that name, or no memory.
class_create(d) ==
  /\ Call(d, "init", "class")
  /\ \/ /\ class[ClassName(d)] = NoOne
        /\ class' = [class EXCEPT ![ClassName(d)] = d]
        /\ ptr' = [ptr EXCEPT ![d] = @ \cup {"my_class"}]
     \/ /\ class[ClassName(d)] # NoOne \/ "class" \in MayFail
        /\ GetsError(d) /\ UNCHANGED class
  /\ UNCHANGED <<mod, failed, pdata, region, cdevs, node, misc, attrs, drvdata, userVars>>

\* device_create: an ERR_PTR if the class is one, if the number has a device, or
\* without memory.
device_create(d) ==
  /\ Call(d, "init", "device")
  /\ \/ /\ "my_class" \in ptr[d] /\ node = NoOne
        /\ node' = d
        /\ ptr' = [ptr EXCEPT ![d] = @ \cup {"dev"}]
     \/ /\ "my_class" \notin ptr[d] \/ node # NoOne \/ "device" \in MayFail
        /\ GetsError(d) /\ UNCHANGED node
  /\ UNCHANGED <<mod, failed, pdata, region, cdevs, class, misc, attrs, drvdata, userVars>>

\* rc = misc_register: or to err_reg.
misc_register(d) ==
  /\ mod[d] = "init" /\ todo[d] # <<>> /\ Head(todo[d]) = "misc"
  /\ \/ todo' = [todo EXCEPT ![d] = Tail(@)] /\ misc' = misc \cup {d} /\ UNCHANGED failed
     \/ "misc" \in MayFail /\ GiveUp(d) /\ UNCHANGED misc
  /\ UNCHANGED <<mod, ptr, pdata, region, cdevs, class, node, attrs, drvdata, userVars>>

HasDev(d) == "dev" \in ptr[d] \/ d \in misc

\* rc = device_create_file or sysfs_create_group on dev: overwrites rc, and
\* follows an ERR_PTR if dev is one.
create_attrs(d) ==
  /\ Call(d, "init", "attrs")
  /\ IF HasDev(d)
     THEN attrs' = attrs \cup {d} /\ failed' = failed \ {d} /\ UNCHANGED mod
     ELSE Crashes(d) /\ UNCHANGED <<attrs, failed>>
  /\ UNCHANGED <<ptr, pdata, region, cdevs, class, node, misc, drvdata, userVars>>

\* It fails: my_misc goes to err, the others go on.
create_attrs_fails(d) ==
  /\ "attrs" \in MayFail /\ mod[d] = "init"
  /\ todo[d] # <<>> /\ Head(todo[d]) = "attrs"
  /\ HasDev(d)
  /\ IF d = "my_misc"
     THEN GiveUp(d)
     ELSE todo' = [todo EXCEPT ![d] = Tail(@)] /\ failed' = failed \cup {d}
  /\ UNCHANGED <<mod, ptr, pdata, kernelVars, userVars>>

\* pdata = kzalloc, followed at once, also where it is NULL.
kzalloc_pdata(d) ==
  /\ Call(d, "init", "pdata")
  /\ pdata' = pdata \cup {d}
  /\ IF d \in WithAttrs THEN NewData ELSE UNCHANGED dataVars
  /\ UNCHANGED <<mod, failed, ptr, kernelVars, file, private, dev, at, beside>>

kzalloc_pdata_fails(d) ==
  /\ "pdata" \in MayFail
  /\ Call(d, "init", "pdata")
  /\ GetsError(d) /\ Crashes(d)
  /\ UNCHANGED <<failed, pdata, kernelVars, userVars>>

dev_set_drvdata(d) ==
  /\ Call(d, "init", "drvdata")
  /\ drvdata' = drvdata \cup {d}
  /\ UNCHANGED <<mod, failed, ptr, pdata, region, cdevs, class, node, misc, attrs, userVars>>

-----------------------------------------------------------------------------
\* Removing attributes, alone or with their device, first keeps new processes
\* out, and then waits until nobody is in a handler.
InHandler(d) == \E p \in Proc : dev[p] = d

deactivate_attrs(d) ==
  /\ mod[d] = "exit" /\ d \in attrs
  /\ todo[d] # <<>> /\ Head(todo[d]) \in {"attrs", "device", "misc"}
  /\ attrs' = attrs \ {d}
  /\ UNCHANGED <<loaderVars, region, cdevs, class, node, misc, drvdata, userVars>>

\* sysfs_remove_group: follows dev, which must not be gone.
sysfs_remove_group(d) ==
  /\ Call(d, "exit", "attrs")
  /\ d \notin attrs /\ ~InHandler(d)
  /\ IF "dev" \in ptr[d] /\ node = d THEN UNCHANGED mod ELSE Crashes(d)
  /\ UNCHANGED <<failed, ptr, pdata, kernelVars, userVars>>

\* device_destroy: removes the device of that number in my_class, if there is
\* one; follows my_class, be it an ERR_PTR or gone or not.
device_destroy(d) ==
  /\ Call(d, "exit", "device")
  /\ d \notin attrs /\ ~InHandler(d)
  /\ IF "my_class" \in ptr[d] /\ class[ClassName(d)] = d THEN UNCHANGED mod ELSE Crashes(d)
  /\ IF "dev" \in ptr[d]
     THEN node' = NoOne /\ drvdata' = drvdata \ {d}
     ELSE UNCHANGED <<node, drvdata>>
  /\ UNCHANGED <<failed, ptr, pdata, region, cdevs, class, misc, attrs, userVars>>

misc_deregister(d) ==
  /\ Call(d, "exit", "misc")
  /\ d \notin attrs /\ ~InHandler(d)
  /\ misc' = misc \ {d} /\ drvdata' = drvdata \ {d}
  /\ UNCHANGED <<mod, failed, ptr, pdata, region, cdevs, class, node, attrs, userVars>>

class_destroy(d) ==
  /\ Call(d, "exit", "class")
  /\ class' = IF "my_class" \in ptr[d] THEN [class EXCEPT ![ClassName(d)] = NoOne] ELSE class
  /\ UNCHANGED <<mod, failed, ptr, pdata, region, cdevs, node, misc, attrs, drvdata, userVars>>

\* cdev_del: of the cdev that this load has added, which is d's first.
cdev_del(d) ==
  /\ Call(d, "exit", "cdev")
  /\ \E k \in 1..Len(cdevs) :
       /\ cdevs[k] = d /\ \A j \in 1..k - 1 : cdevs[j] # d
       /\ cdevs' = RemoveAt(cdevs, k)
  /\ UNCHANGED <<mod, failed, ptr, pdata, region, class, node, misc, attrs, drvdata, userVars>>

\* unregister_chrdev_region: frees the number, whoever has it.
unregister_chrdev_region(d) ==
  /\ Call(d, "exit", "region")
  /\ region' = NoOne
  /\ UNCHANGED <<mod, failed, ptr, pdata, cdevs, class, node, misc, attrs, drvdata, userVars>>

kfree_pdata(d) ==
  /\ Call(d, "exit", "pdata")
  /\ pdata' = pdata \ {d}
  /\ IF d \in WithAttrs THEN NoData ELSE UNCHANGED dataVars
  /\ UNCHANGED <<mod, failed, ptr, kernelVars, file, private, dev, at, beside>>

-----------------------------------------------------------------------------
\* Process p opens d's device: possible as soon as it is registered, if that is
\* not by an earlier load.  my_chrdev and its kin save pdata, as it is now, in
\* the file's private_data; sleepy and my_misc do not.
Opens(p, d) ==
  /\ file[p] = NoOne /\ dev[p] = NoOne
  /\ file' = [file EXCEPT ![p] = d]
  /\ private' = IF d \in pdata \ {"my_misc"} THEN private \cup {p} ELSE private
  /\ UNCHANGED <<loaderVars, kernelVars, attrVars>>

my_chrdev_open(p) ==
  /\ cdevs # <<>>
  /\ LET d == Head(cdevs)
     IN  mod[d] \in {"init", "live"} /\ ~Contains(todo[d], "cdev") /\ Opens(p, d)

my_misc_open(p) == \E d \in misc : mod[d] \in {"init", "live"} /\ Opens(p, d)

my_chrdev_release(p) ==
  /\ file[p] # NoOne
  /\ file' = [file EXCEPT ![p] = NoOne]
  /\ private' = private \ {p}
  /\ UNCHANGED <<loaderVars, kernelVars, attrVars>>

\* A process, with no file open here, reads or writes an attribute of d.  The
\* first thing each handler does is to get the device's private data; if that is
\* not there yet, dev_get_drvdata returns NULL, which the handler follows.
UseAttr(p, d) ==
  /\ d \in attrs /\ file[p] = NoOne /\ dev[p] = NoOne
  /\ EarlyAccess \/ mod[d] = "live"
  /\ IF d \in drvdata
     THEN /\ size_show(p, d) \/ size_store(p) \/ buffer_show(p, d) \/ buffer_store(p, d)
          /\ UNCHANGED mod
     ELSE Crashes(d) /\ UNCHANGED attrVars
  /\ UNCHANGED <<todo, failed, ptr, pdata, kernelVars, file, private>>

Extra(d) == IF d = "my_create_attr" THEN 0 ELSE 1

AttrStep_no_return(p) ==
  /\ buffer_show_print(p, Extra(dev[p])) \/ buffer_store_copy(p)
  /\ UNCHANGED <<loaderVars, kernelVars, file, private>>

AttrStep(p) ==
  /\ buffer_show_print(p, Extra(dev[p])) \/ buffer_store_copy(p) \/ show_return(p)
  /\ UNCHANGED <<loaderVars, kernelVars, file, private>>

\* The calls of the init or exit function of d.
ModuleStep(d) ==
  \/ init_return(d) \/ exit_return(d)
  \/ register_chrdev_region(d) \/ cdev_add(d) \/ class_create(d) \/ device_create(d)
  \/ misc_register(d) \/ create_attrs(d) \/ create_attrs_fails(d)
  \/ kzalloc_pdata(d) \/ kzalloc_pdata_fails(d) \/ dev_set_drvdata(d)
  \/ deactivate_attrs(d) \/ sysfs_remove_group(d) \/ device_destroy(d)
  \/ misc_deregister(d) \/ class_destroy(d) \/ cdev_del(d)
  \/ unregister_chrdev_region(d) \/ kfree_pdata(d)

Next ==
  \/ \E d \in Drivers : insmod(d) \/ rmmod(d) \/ ModuleStep(d)
  \/ \E p \in Proc : my_chrdev_open(p) \/ my_misc_open(p) \/ my_chrdev_release(p)
  \/ \E p \in Proc, d \in Drivers : UseAttr(p, d)
  \/ \E p \in Proc : AttrStep(p)

Spec == Init /\ [][Next]_vars

\* Fairness: a call under way goes on, be it of init, of exit or of a show or store
\* function.  Nobody has to load, unload, open or close anything.
FairSpec ==
  /\ Spec
  /\ \A d \in Drivers : WF_vars(ModuleStep(d))
  /\ \A p \in Proc : WF_vars(AttrStep(p))

-----------------------------------------------------------------------------
Owner == Drivers \cup {NoOne}

TypeOK ==
  /\ mod \in [Drivers -> {"unloaded", "init", "live", "exit", "dead"}]
  /\ todo \in [Drivers ->
       Seq({"region", "cdev", "class", "device", "misc", "attrs", "pdata", "drvdata"})]
  /\ \A d \in Drivers : mod[d] \in {"unloaded", "live"} => todo[d] = <<>>
  /\ failed \subseteq Drivers /\ pdata \subseteq Drivers
  /\ ptr \in [Drivers -> SUBSET {"my_class", "dev", "error"}]
  /\ region \in Owner /\ node \in Owner
  /\ cdevs \in Seq(Drivers)
  /\ class \in [{"chardev0", "sleepy"} -> Owner]
  /\ misc \subseteq Drivers /\ attrs \subseteq Drivers /\ drvdata \subseteq Drivers
  /\ file \in [Proc -> Owner] /\ private \subseteq Proc
  /\ dev \in [Proc -> Owner] /\ AttrsTypeOK

\* What the kernel still has registered for module d.
Registered(d) ==
  \/ region = d \/ node = d \/ Contains(cdevs, d) \/ class[ClassName(d)] = d
  \/ d \in misc \cup attrs \cup drvdata

\* Chardev registration notes, line 72 (when the module goes, do not forget to
\* unregister).  A module whose init did not fail leaves nothing behind when it
\* is unloaded, no cdev, class, device or attribute that leads into memory that
\* is no longer its own; nor private data, but for my_misc, which never frees it.
NothingLeftBehind ==
  \A d \in Drivers \ failed :
    mod[d] = "unloaded" => ~Registered(d) /\ d \notin pdata \ {"my_misc"}

\* A file is open only on a module that is in memory, as one is that has crashed
\* (but one that was opened before init failed stays open), and what its private_data
\* points to has not been freed; nor has the data that a show or store function works
\* on, which therefore ends before the device goes.
FilesPinned ==
  \A p \in Proc :
    /\ file[p] \notin failed \cup {NoOne} => mod[file[p]] \in {"init", "live", "dead"}
    /\ p \in private => file[p] \in pdata
    /\ dev[p] # NoOne => dev[p] \in drvdata \cap pdata

\* Registration notes, lines 1 and 21: to create a character device, first of all
\* the number is to be determined, which is its identity; that request may fail.
\* A driver that has come up has its number, which exit gives back without asking
\* whose it is: also beside what failed drivers have left, if it can be nobody else's.
LiveOwnsRegion == \A d \in Drivers \ {"my_misc"} : mod[d] = "live" => region = d

\* If no store runs beside, and the text that was stored last left room for its NUL,
\* a reader of "buffer" gets that text, whole (my_create_group_attr.c:67: snprintf
\* counts the NUL too, hence + 1); my_create_attr.c has no + 1 and shows less.  A
\* reader of "size" gets the number if it has at most three digits.
ShownWhole == \A p \in Proc : dev[p] # "my_create_attr" => ReadsBack(p)

\* Device node notes, lines 25 to 31, and the order of the calls of init: each
\* finds what it follows.  A module crashes only if a call of its init has
\* returned NULL or an ERR_PTR, which none of these drivers looks at; nobody is
\* in its attributes before init returns (NoOops says what happens otherwise).
CrashesOnlyOnError == \A d \in Drivers : mod[d] = "dead" => "error" \in ptr[d]

\* An init or exit function that is under way ends, the one or the other way:
\* removing the attributes does not wait for ever for who is in them.
CallsEnd ==
  \A d \in Drivers : mod[d] \in {"init", "exit"} ~> mod[d] \notin {"init", "exit"}

\* The same notes: not even a module whose init has failed leaves anything.
FailedLeavesNothing == \A d \in Drivers : mod[d] = "unloaded" => ~Registered(d)

\* my_create_attr.c:32, :194: a show or store function gets the device's private
\* data.  No process follows a NULL that it got in its place, or an ERR_PTR.
NoOops == \A d \in Drivers : mod[d] # "dead"
=============================================================================

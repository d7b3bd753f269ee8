# A verification project for LinuxDriver

The repository is a collection of small Linux kernel modules with notes: each
one demonstrates one kernel facility (a lock, a wait queue, a workqueue, a way
of registering a character device). There is no program that links them. What
they have in common is that each has a `module_init` and a `module_exit`, some
static state, and handlers that the kernel calls from several processes,
interrupts and worker threads at once. That is what is modelled here: the
handlers of each driver step by step, under every interleaving the kernel
allows, across loading and unloading.

All paths below are relative to `src/document/`.

## Inventory

| Component | Source | State | Operations | What is hard |
|---|---|---|---|---|
| Exclusive-open device | `sync/atomic/test.c` | `atomic_t v` | open (with its failed path), release, init, exit | the failed open gives its decrement back in a second step |
| Mutex counter device | `sync/mutex/test.c` | `lock`, static `cnt` | open, write, release, init, exit | `cnt++` is a load and a store; the owner sleeps in the section |
| Spinlock counter device | `sync/spinlock/test.c` | `lock`, static `cnt` | the same | preemption while the lock is held or waited for |
| Semaphore counter device | `sync/semaphore/test.c` | `sem` (2 permits), static `cnt` | the same | two writers in the loop; permits handed from writer to sleeper |
| Completion device | `sync/completion/test.c`, `app.c` | `com` | read (blocks), write (`complete_all`), signals, open, release | late readers, woken readers, signals |
| sleepy | `chardev/sleepy.c` | `flag`, `wq` | read (waits, clears), write (sets, wakes), init, cleanup | flag and queue touched without a lock; ignored result of the wait |
| Workqueue driver | `irq/workqueue_thread_test.c` | `t[NUM]`, `wq`, `i`, `cnt` | `irq_handler`, `work_main`, init, exit | presses during a run; unloading with queued work |
| System-workqueue driver | `irq/workqueue_test.c` | the same, `wq` never set | the same | both items run at once; destroys what it never created |
| Character drivers | `chardev/my_chrdev.c`, `my_create_attr.c`, `my_create_group_attr.c`, `sleepy.c` | `devno`, `cdev`, `my_class`, `dev`, `pdata` | init and exit call by call, open, release | order of calls beside opens; failures that init ignores; one device number for all |
| sysfs show/store | `my_create_attr.c`, `my_create_group_attr.c`, `chardev/my_misc.c` | `pdata->size`, `pdata->buffer` | show and store of `size` and `buffer` | no lock; what `snprintf` cuts off; texts that do not fit the buffer; private data that is not there yet; removal while a handler runs |
| Misc device with attributes | `chardev/my_misc.c` | `my_misc_dev`, `pdata` | init with two error labels, exit, open, release | what a failed `sysfs_create_group` leaves behind |
| Tasklet | `irq/tasklet_test.c` | `task`, `lock`, static `cnt` | `irq_handler`, `task_main`, `critical`, init, exit | `free_irq` with another `dev_id`; no `tasklet_kill` |
| Interrupt line | `irq/irq_test.c` | the line | request, free, handler | shared GPIO and line |
| Key input | `input/my_key.c` | `input`, the line | probe, remove, handler | the interrupt comes before the input device, so that edges are lost, and is never freed |
| I2C chip | `input/my_i2c.c` | client, register cache | probe, read, write, remove | cache and chip when transfers fail; removal from inside remove |
| Platform driver | `platform/my_platform.c` | as the character drivers, `drvdata` | probe, remove, open, release, init, exit | error paths of probe, missing `device_destroy`, an exit function in init memory |
| Timer, jiffies | `timer/timer/test.c`, `timer/jiffies/test.c` | a timer, `jiffies` | arm, modify, expire, delete | expiry beside init; wrap-around |
| Kernel thread | `thread/test.c` | `t` | thread function, init, exit | the thread may run before `t` is assigned |
| Proc file, memory examples | `chardev/proc/proc_create.c`, `mem/*/test.c` | none to speak of | init, exit | straight-line allocation and release |

How they interact. The misc devices of `sync/` all register the name `my_misc`, so that
one of them is loaded at a time, and meet the user only through the misc core and the VFS
(open, release, read, write, each from any process). The character drivers meet each
other: they all ask for device number 255:0, three of them for the class `chardev0`. The
drivers of `irq/` ask for the same GPIO and interrupt line without sharing it.
`my_platform`, `my_key` and `tsu6721` register with the driver core, which calls probe and
remove at insmod, unbind, bind and rmmod. Inside a driver the handlers interact only
through its statics, its locks and the kernel objects it registered.

What makes each correct: the locks exclude and lose nothing, waiting ends, the
counter of each lock balances over every error path; a wake-up is not lost;
queued work runs, and runs before the module goes; nothing is registered by a
module that is not in memory, nothing is used before it is there, and no call
leaves memory that somebody still runs in; what was written is what is read; a
timer is not early; what the input device and the register cache say is what the
key and the chip have.

## Modules

| Module | Models | Role |
|---|---|---|
| `MiscModule` | insmod, rmmod, misc core, open files | the surroundings of a `sync/` driver; external, from how the drivers use it |
| `ExclusiveDevice` | | abstract: a device one process at a time may hold |
| `AtomicOpen` | `sync/atomic/test.c` | refines `ExclusiveDevice` |
| `BlockCounter` | | abstract: writes print consecutive blocks of consecutive numbers |
| `CounterDevice` | what the three locked drivers share | refines `BlockCounter` if the lock admits one |
| `Mutex`, `Spinlock`, `Semaphore` | the lock calls of the three drivers | extend `CounterDevice` |
| `SyncDrivers` | the three drivers together | composes the three |
| `CompletionRead` | `sync/completion/test.c` | |
| `Sleepy` | the handlers of `chardev/sleepy.c` | |
| `KeyWork` | handler and work function of the workqueue drivers, and the kernel's workqueue | |
| `KeyDrivers` | the four drivers of the interrupt line in `irq/`, with init and exit | extends `KeyWork` |
| `Background` | `timer/timer/test.c`, `timer/jiffies/test.c`, `thread/test.c` | extends `KeyDrivers`: everything that runs on when handlers have returned |
| `DeviceAttrs` | the attributes `size` and `buffer` of `my_create_attr.c`, `my_create_group_attr.c`, `my_misc.c` | |
| `CharDrivers` | init, exit, open, release of the four character drivers and of `my_misc.c` | extends `DeviceAttrs` |
| `MCCharDrivers` | | the texts that are written, for TLC |
| `BusDrivers` | `platform/my_platform.c`, `input/my_key.c`, `input/my_i2c.c` | |
| `AtomicOpen_proofs`, `CounterDevice_proofs`, `SyncDrivers_proofs`, `CompletionRead_proofs`, `Sleepy_proofs`, `Background_proofs`, `BusDrivers_proofs`, `CharDrivers_proofs` | | theorems |

### AtomicOpen

`v` is the driver's `atomic_t`. A successful open (`atomic_dec_and_test` true) is
one step; a failed one is two, `my_misc_open` and `my_misc_open_fail`, with the
process in `undo` between its decrement and its `atomic_inc`. `fds` is who has the
file open, `mod` what the loader thinks of the module. `SerialOpen` says whether
the misc core's `misc_mtx` is held around the driver's open, as it is in the
kernel; the driver excludes either way, but only with it is -EAGAIN an honest
answer, because two failed opens could otherwise refuse each other.

### CounterDevice, Mutex, Spinlock, Semaphore, SyncDrivers

The write handler is the same in the three files but for the lock. `pc[p]` walks
through it: `copy` (copy_from_user, which may fault), `lock`, `wait` (asleep in
`down` or spinning in `spin_lock`), `load` and `store` (the halves of `cnt++`),
`unlock`. `block[p]` is what the process's write has printed. `SyncDrivers` lets
any of the three be loaded (`lock` says which), used, unloaded, and another one
loaded; a run therefore also shows that nothing of the former one carries over.

The mutex is an `owner`, taken when free, in no particular order. The spinlock is
a queue of tickets with processors: `onCpu` is who has one, and only they take a
step; a process from `spin_lock` to `spin_unlock` is not preempted. The semaphore is
`count` and a queue of `waiters`; `up` hands the permit to the first of them
without letting `count` rise, as the kernel does.

`Permits` is the argument of `sema_init`: 2 in the code (a comment has 1). With
two the writers race for `cnt`, on purpose by the comment at
`sync/semaphore/test.c:100`; so `BlockCounterSpec` asks nothing of a semaphore of
more than one permit, and `QuiescentCount` says what is still true.

### CompletionRead

`done` is the completion's counter and `sleepers` its queue. `my_misc_read` goes
through, gives up on a signal or sleeps; a woken reader (`woken`) tries again when
it runs. `complete_all` sets `done` to `UIntMax`, which no wait uses up. `written`
is a history variable for the properties.

### Sleepy

`flag` and `wq` are accessed without a lock, so every access is a step of its own:
the first test of the condition, joining the queue, the second test, sleeping,
clearing the flag; setting the flag, waking the queue. The result of
`wait_event_interruptible` is ignored as in the code.

### KeyWork, KeyDrivers

An edge of the line runs `irq_handler`, which queues item `i`. An item is taken
off the queue before it runs, does not run twice at once, and can be queued again
while it runs. `Workers` is one for `create_singlethread_workqueue` and one per
item on the system's workqueue. Unloading is `free_irq`, then
`destroy_workqueue`, which waits for the queue to drain, and crashes (`oops`) when
`wq` is NULL.

`driver` says which of the modules is loaded; they ask for the line
exclusively, so that one at a time has it (`irqOn`). The tasklet of `tasklet_test.c`
is item 0 with one worker: it is scheduled at most once, taken off its list before it
runs, and never runs beside itself; `critical` has the loop of `work_main`, in a lock
that nobody else takes. The handler of `irq_test.c` keeps no state and has no
action. Neither of the two looks at the result of `request_irq`
(`RequestIrqIgnored`). `tasklet_test` registers its handler with `&lock` and frees it
with NULL, which the kernel does not find: the handler stays (`stray`), the line
cannot be had by the next module, and the next edge, or a tasklet still scheduled,
runs code that is gone (`StrayCall`). No document says that this cannot happen, so
there is no finding; the properties of the other drivers hold beside it.

### Background

The timer, the delay and the thread join the drivers of `KeyDrivers`, one module
loaded at a time, so that one invariant (`CodeStays`) says of all of them that an exit
function stops what its init has started. `step` counts the calls init has made.
`jiffies` is a number below `Modulus`, twice `Half`, and wraps around;
`time_is_after_jiffies` is the kernel's comparison, the sign of the difference as a
number of as many bits. `asked` and `since`
are history: how long the timer or the delay was last to wait, and how long it has.
The timer expires when its time has come or up to `MaxLate` ticks later, also between
the two `mod_timer` and while rmmod runs; `del_timer_sync` waits for `timer_main`.
`kthread_run` is three steps (create, wake, assign `t`); a thread that runs in between
follows a NULL `t` (`thread_main`, to `oops`).

### DeviceAttrs

`at[p]` is where in a show or store handler a process is, with the handler's locals:
the length that `strlen` has found, the text that `memcpy` will copy, or what the
reader gets. `strlen` and `snprintf` are two steps, and `memset` and `memcpy`; nothing
locks them.

A text is a name and a length, which is all that the handlers' calls depend on.
`memcpy` takes as many bytes as the user has written: a text of `Room` bytes or more
leaves no NUL in the buffer and goes on behind it, so that `strlen` may find its length
or more. A text that is copied over a longer one leaves the end of that (`Mixed`),
which is what the `memset` is for. `snprintf` is modelled by how much it leaves: at most
one byte less than its room. `text` and `beside` are history: what was stored last, and
who ran beside a store.

### CharDrivers

Each driver's `todo` is the list of the calls its init or exit function has yet to make,
so that the functions of several drivers and the processes' opens, closes, shows and
stores interleave between any two calls. `ptr[d]` is which of its two pointers are there,
and `error` once a call of its init has returned NULL or an ERR_PTR. None of the drivers
looks at those: what follows one crashes the module (`mod` is `dead`), as does what
follows a class or a device that is gone already, or private data that is not there yet.
`MayFail` is the calls that may fail whatever is registered (no memory); those that meet
somebody else's registration fail in any case. The kernel's registries (`region`, `cdevs`,
`class`, `node`, `misc`, `attrs`, `drvdata`) are modelled from the calls: `cdev_add` asks
nobody who owns the number, the newest cdev is the one that is opened,
`unregister_chrdev_region` frees the number whoever has it. Removing attributes first
keeps new processes out (`deactivate_attrs`) and then waits for those inside. `my_misc`
leaves the number to the misc core and is the only one whose init gives up at an error
(`GiveUp`).

### BusDrivers

`todo` is what probe or remove has yet to call, as in `CharDrivers`; probe, remove, and
with them `unbind`, `bind` and `rmmod`, come one at a time under the device's lock, but
beside opens of `my_platform` and edges of the key's line. `dt` is what the device tree
says, and decides which error path of `my_platform_probe` is taken; `have` is what it
has acquired. `irq`, `input` and `told` are the line, the input device and the level that
was reported last; the handler reads the level in one step and reports it in another, and
a device that is not yet prepared drops what is reported. `came` is history: whether the last
edge came when the device could take it (`late`), or was allocated only (`early`).
`chip` and `cache` are the control register and the driver's copy, `lost` which of the
transfers failed, which the driver does not notice.

## Runs

| Run | Instance | Shows |
|---|---|---|
| `atomic` | 12 processes | counter balance, exclusion, and the refinement of `ExclusiveDevice` |
| `sync` | 3 processes, 2 iterations, 2 permits, 2 processors, `MaxCount` 2 | all safety properties, the refinement of `BlockCounter`, and liveness, for the three locks |
| `completion` | 3 processes, `UIntMax` 3 | no read before the write, nobody left asleep after it, everyone released |
| `sleepy` | 4 processes | no lost wake-up, raised flags are taken |
| `key_drivers` | `Background`: 7 modules one at a time, 2 items, 3 iterations as in the code, `MaxCount` 5; 8 values of jiffies (`Half` 4), `HZ` 1, `MaxLate` 2 | presses served, increments, timer and delay never early, nothing runs on after unloading, which ends |
| `char` | the 4 drivers of number 255:0 and `my_misc` one at a time, 2 processes, a buffer of 4 bytes, a text of 1 byte and one of 4, sizes of 3 and of 4 digits; every call of init but the request of the number may fail | nothing left behind, files and running handlers pinned, the number owned beside what failed loads have left, what was stored is read, only errors crash, init and exit end |
| `bus` | 3 drivers one at a time, 2 open files | the key followed once the input device can take its edges, the cache honest, everything given back but the node |
| `sleepy_woken_by_flag`, `char_number_refused`, `char_failed_init`, `char_attr_race`, `key_early_edge` | small | the findings below |

Bounds, and why they are enough.

- `Proc`: three writers give a holder, a first and a second waiter; a fourth
  is in the same place as the third. With four processes `sleepy` has two readers
  and two writers under way at once. Twelve in `atomic` because its states are few.
- `Lines` is 3 in the code. Two iterations already go round the loop once and end
  it; `key_drivers` has the three. With one iteration `QuiescentCount` would be
  false, with two or more the bound 2 is the exact one.
- `MaxCount` is where new writes (presses) stop, not a bound on the counter: those
  that are under way go on, so counts beyond it are reached. 2 lets a second round
  of writes begin after a first one has finished or lost increments; 5 in
  `key_drivers` lets both items run, be queued again while they run, and run again.
- `NCpu` 2 with three processes: somebody must always be preempted, and two can
  spin at once. Liveness on one processor is a case of the fairness argument, and
  `AtomicOnCpu` is proved for any number.
- `UIntMax` stands for UINT_MAX; all that matters is that `complete()` would not
  reach it at once.
- `Half` 4 and `HZ` 1: the longest wait is three ticks of the eight, so that every wait
  begins before, at and after the wrap-around. The code's jiffies have 32 or 64 bits; what
  matters is that a wait with its lateness is less than half of the range
  (`BackgroundAssumption`).
- `Room` 4 (20 in the code): the initial text fills the buffer but for its NUL. Of the
  texts that are stored, one is shorter, so that a missing `memset` shows, and one fills the
  buffer, so that its NUL is missing; what longer ones do is the same. `Sizes` has the
  numbers on either side of what `snprintf(buf, sizeof(int), ...)` can show; 0 and 100 are
  there from the start.
- `MayFail`: all calls of `char` but the request of the number, of which
  `char_number_refused` shows what it leads to. Failed loads leave the number, class and device
  to those that come after, so that all calls are also refused for that reason.
- Two processes in `char`: a store beside a show, a store beside a store,
  and one that has the device open while the other one is in an attribute.
- `MaxFiles` 2: remove runs while files are open, and one of them is closed.
- `MaxCdevs` 2 stops insmod once failed and crashed loads have left two cdevs behind: the
  next one finds everything taken, and so would those after it.

Deadlock is checked everywhere but in `Background`, `KeyDrivers`, `CharDrivers` and
`BusDrivers`, where the system may really stop: after the crash of `workqueue_test`, of a
call into `tasklet_test` after it is gone, of a thread that runs before `t` is assigned, of
a character driver that follows an ERR_PTR while no other one may be loaded, of an interrupt
without its input device, of the exit function that was freed; and after
`i2c_unregister_device` has begun to wait for the lock its caller holds.

Fairness. Steps of a process inside the kernel are weakly fair: the scheduler runs what
can run, `msleep` ends, a woken process gets a processor. Under the spinlock driver, where
processors are modelled, a process must get a processor and then get on, against others
that are scheduled again and again; that is strong fairness of `Schedule` and of its own
steps, which the kernel's fair scheduling class gives. Nothing is assumed of users: nobody
has to open, read, write, press or unload. Nothing is assumed of the mutex either, which
the kernel may give to a newcomer: the property there is that it becomes free
(`WaiterServed`), not that a given waiter gets it. `exit_destroy_workqueue`, `TimerStep`,
`JiffiesStep`, `ThreadStep`, `ModuleStep` (of each module) and `AttrStep` (of each
process) are weakly fair because they are calls in progress, or a thread that the
scheduler runs; `Tick` because time passes. `Tick` is enabled only while somebody waits
for time.

The properties worth reading first: `BlockCounterSpec` (every write is one
indivisible block, whatever the interleaving of loads and stores),
`ExclusiveDeviceSpec`, `CountBalance`, `PermitConservation` with `NoNeedlessSleep`,
`AtomicOnCpu`, `QuiescentCount` (the well-known minimum of racing increments),
`NoLostWakeup`, `PressServed` across unloading, `CodeStays`, `NeverEarly`,
`NothingLeftBehind`, `FilesPinned`, `CrashesOnlyOnError`, `ShownWhole`, `KeyFollowed`,
`CacheHonest`.

## Findings

- `sleepy.c:32` ignores the result of `wait_event_interruptible`. A signal gets a
  reader past the wait with the flag down; it then clears the flag, possibly one
  that a writer has raised for another reader, and reports that it was awoken
  (`sleepy_woken_by_flag`).
- `my_chrdev.c:81` and its like go on when the number is refused, add the cdev,
  and return the error: the module goes and its cdev stays (`char_failed_init`).
- `my_create_attr.c:145,176` does not look at the refused number and overwrites the error:
  the driver comes up without a number, and its exit gives back somebody else's
  (`char_number_refused`); `my_create_group_attr.c:190` does the same.
- `my_create_attr.c:176-195` creates the attributes before it sets the private data
  that they use (`char_attr_race`); `my_create_group_attr.c` and `my_misc.c` do the same.
- `my_key.c:81` requests the interrupt before the input device is allocated (84) and can
  take the key (104): an edge that is handled in between is never reported
  (`key_early_edge`).

Two more show whenever the module is unloaded, whatever runs beside, so that no run is
spent on them. `workqueue_test.c:68,75` destroys `wq`, which is never assigned, against the
comment on line 49 (`exit_destroy_workqueue`, to `oops`). `my_platform.c:142` destroys the
class and never the device, against `chardev/设备节点创建.md:25-31`; `OnlyNodeLeft` exempts
that device.

Passing properties hold with exceptions that the code makes necessary. They are stated in
the properties, and no document contradicts them, so they are not findings:

- The `memcpy` of `buffer_store` (`my_create_group_attr.c:85` and its like) takes any
  length. Of a text that leaves no room for its NUL a reader may get more, or parts of
  others; `ReadsBack` promises nothing then, and the next text that fits is read whole again.
- `my_create_attr.c:67` gives `snprintf` no room for the NUL and loses the last
  character; `ShownWhole` exempts it. Any `buffer` show returns one byte more than it
  has text, and a `size` of four digits loses its end (`ReadsBack`).
- No driver looks at what `cdev_alloc`, `class_create`, `device_create` and `kzalloc` return
  (`my_chrdev.c:86-114` and its like). A NULL is followed at once; an ERR_PTR where the next
  call or exit uses it. `CrashesOnlyOnError` says that there is no other way to crash.
- `my_misc.c:152`: after a failed `sysfs_create_group` the misc device stays registered,
  and a file opened before stays open; `NothingLeftBehind` and `FilesPinned` exempt a
  failed init, and an init that crashed. `pdata` is never freed.
- `my_platform.c:85` keeps `drvdata` when there is no device-tree node (`OnlyNodeLeft`);
  `my_platform_exit` is marked `__init` (line 192), so that its code is gone when rmmod
  calls it (`rmmod_freed_exit`); that it may still be found there by chance is the other
  case. The match tables of `my_platform.c` and `my_key.c` have no terminator.
- `my_key.c` never frees its interrupt: edges after remove follow a freed input device or
  run code that is gone; before line 84 they follow NULL. `KeyFollowed` speaks of edges that
  come when the input device can take them.
- `my_i2c.c:159,170` unregisters the client whose lock the driver core holds: remove never
  returns (phase `hung`).
- `thread/test.c:9` reads `t` before it may have been assigned.

In `char` the drivers are loaded one at a time, attributes are used once init has returned,
as the notes describe, and nobody but these drivers has the number; that is why it passes
beside the violations. An open between `cdev_add` and `kzalloc` also finds no private data;
no handler of these drivers uses it, so nothing is claimed about it.

## Proofs

`tlapm` proves every safety invariant and every safety action property that a passing run
checks, and both refinements, for all values of the constants that the modules'
assumptions admit (and `UnloadSafe` of `AtomicOpen`, which its exclusion rests on):

| Theorem | For |
|---|---|
| `TypeCorrect`, `CounterBalances`, `MutualExclusion`, `NeverUnloadedInUse`, `Refinement` | `AtomicOpen` |
| `TypeCorrect`, `MutualExclusion`, `NeverPreempted`, `PermitsConserved`, `SleepIsNeeded`, `NeverUnloadedInUse`, `Refinement`, `RaceIsBounded` | `SyncDrivers` |
| `TypeCorrect`, `QueueOfSleepers`, `DataAfterWrite`, `BroadcastReachesAll`, `PinnedByRead` | `CompletionRead` |
| `TypeCorrect`, `WakeupsArrive` | `Sleepy` |
| `TypeCorrect`, `NothingRunsOn`, `EveryIterationCounts`, `RaceIsBounded`, `TimeIsKept` | `Background`, with what it extends, `KeyDrivers` and `KeyWork` |
| `TypeCorrect`, `KeyIsFollowed`, `CacheIsHonest`, `LeftBehind` | `BusDrivers` |
| `TypeCorrect`, `InUseStays`, `ReaderGetsText`, `ErrorsCrash`, `CleansUpAlone`, `OwnsNumberAlone` | `CharDrivers`, with `DeviceAttrs` |

Assumptions on the constants: `Proc` is finite in the drivers of `sync/` (nothing is
assumed of it elsewhere); `Lines`, `Permits`, `NCpu`, `NUM` and `UIntMax` are positive
naturals, `MaxCount`, `MaxFiles` and `MaxCdevs` naturals; `SerialOpen` is a Boolean, and
TRUE for the refinement of `ExclusiveDevice`. `HZ` is positive, and the three seconds of
the longest wait and `MaxLate` are each less than `Half`. `Room` is more than the initial
text (`RoomAssumption`); the texts that are stored have any names and lengths
(`TextsAssumption`), the sizes are what `%d` shows as it is (`SizesAssumption`). At most
one driver with attributes is in `Drivers`, or they are loaded one at a time
(`DriversAssumption` of `CharDrivers`), because `DeviceAttrs` has the private data of one
device.

Some theorems have a hypothesis of their own, which a run meets and without which
the statement is false. `RaceIsBounded` asks for two iterations or more, of the three in
the code: with one, two increments may leave 1. `CleansUpAlone` and `OwnsNumberAlone` ask
that one module is loaded at a time (`OneAtATime`) and that nobody but these drivers has the
number (`"region" \notin MayFail`); `char_failed_init` and `char_number_refused` show what
happens otherwise. `ErrorsCrash` asks that nobody is in the attributes before init returns
(`~EarlyAccess`); `char_attr_race` is the other case.

AtomicOpen. The invariant is `CountBalance` with the pinning of the module and
exclusion itself: the counter is 1 - |fds| - |undo|, and only an open that makes it
exactly 0 enters `fds`, so `fds` was empty then. `CountBalance` is needed because
exclusion alone says nothing about how far below 1 the failed opens have taken it.

SyncDrivers. The invariant has two parts. `CommonInv` (in `CounterDevice_proofs`)
is about the handler and holds whatever the lock is: the length of a process's block
agrees with its place in the loop, and, under a lock that admits one, the block's
numbers are consecutive and end where the counter is. One lemma per step shows that
it is kept and that the step is one of `BlockCounter` or changes nothing there; the
step that enters the loop has, as a hypothesis, that nobody else is in it. The
refinement maps the abstract counter to `cnt` less what the writer in the loop has
stored, so that the abstract block is taken when the lock is given back. `LockInv`
(in `SyncDrivers_proofs`) discharges the hypothesis: the owner of the mutex is who
is in the loop; the spinlock's queue lists each process that cannot be preempted
once, the one in the loop at its head, and all are on processors; free permits
and processes in the loop add up, the semaphore's queue lists each sleeper once, and
is empty while a permit is free. `QueueJoin` and `QueueLeave` are what the two queues
need of sequences. When a permit is handed over, one process leaves and another
enters in the same step (`HandOver`).

Racing increments (`RaceInv`, in `SyncDrivers_proofs` and in `Background_proofs`).
`QuiescentCount` says nothing while somebody is in the loop, so it is not inductive. The
invariant says that the counter is not 0 again once an iteration has been stored, and that
nobody who has stored one carries a stale 0 into a later store: its second or later load
came after its own store. So whoever stores the last iteration of a loop leaves 2 or more,
and what follows can only be stored from a 1 or more.

CompletionRead. `done` is `UIntMax` once something was written and 0 before, so that
the queue stays empty from then on; the queue lists the readers that are asleep, each
once (`QueueOfSleepers`), so that `complete_all`, which wakes the queue, wakes all of them.
A process in read has the file open, which pins the module.

Sleepy. `NoLostWakeup` is inductive with the types: a reader goes to sleep only when
it has seen the flag down from inside the queue, and a writer raises the flag before
it empties the queue.

Background. `LineInv` says whose handler is on the line, and that the workqueue exists
from init to the end of exit or that there is no work. `CountInv`: where there is one worker,
at most one item is busy, and what it has loaded is the counter. `OwnersInv`: a timer
or a thread that is under way belongs to a module that is still there. `ClockInv`: while
somebody waits, `(jiffies - expires) - (since - asked)` is 0, or a whole range of jiffies to
either side. From that, `Expired` shows that where `time_is_after_jiffies` is
false the time has passed; it is here that half of the range must be more than the wait, and
more than the lateness.

BusDrivers. Everything depends on how far probe or remove has got, so the invariant lists
which tails of the call lists `todo` may be, and ties to its length what `my_platform`
has (`PlatformInv`) and what the chip and the cache are (`ChipInv`). `KeyInv` says
that, once the input device can take an edge and one has come, `told` differs from `level`
only while an edge is unanswered or a handler has read the level and not yet reported it;
a handler whose edge is answered has read what the level still is.

CharDrivers. Three invariants hold however many modules are loaded. In `RegistryInv`, `todo`
is in the order of the source, and each registry says by which calls of `todo` it is
explained: attributes that are there have a device and belong to a driver that has come so far;
private data is allocated before it is on the device and freed after the attributes have
gone; a process in a handler is there after init, or at its end. `FilesPinned` is one of its
conjuncts. In `TextInv` the buffer holds the last text unless a store is under way, one that
is alone has found the buffer empty, and who has taken its length beside nobody has the
length of the text, if that has room for its NUL; `TextFacts`, `NewlineLost` and `ThreeDigits`
say what `strlen`, `snprintf` and the formatted number are. `CrashInv` is for
`CrashesOnlyOnError`: what a driver has not got, it has got an error for; its class is there
until its own exit destroys it, whoever else has come and gone; its attributes go before
their device and the device before its class, and have their data when init returns. The
fourth, `AloneInv`, needs `OneAtATime`. A driver that fails or crashes does not leave
the registries empty, so the invariant cannot say that the next one finds them so. It
says that a driver under way is `Fresh`, having found nothing and registered exactly
what it has called for and got, or `Doomed`, having found number,
class and device taken by one that failed, so that it fails too or crashes; between them all
is `Free` or all three are `Taken`.

In several proofs the Boolean variables are apart from the others (`FlagsOK`), because no
one of the provers decides a step about both.

Only model-checked. Everything about liveness (`EveryWriteReturns`, `WaiterServed`,
`ReleasedByWrite`, `FlagTaken`, `PressServed`, `ExitCompletes`, `CallsEnd`), which is out of
the prover's reach, as is ENABLED, on which fairness rests; and the violations, which are
counterexamples and need no proof.

## Abstractions

- Logging, the text of messages and `mdelay` are left out; `msleep` is the freedom of
  others to run. The data copied from the user is not modelled, only whether the
  copy faults.
- An atomic operation, a lock operation and a call of a registration function are one
  step each; `cnt++` is two.
- `Background` and `BusDrivers` have one of their modules loaded at a time; the GPIO,
  which no module checks that it got, is left out.
- The two `device_create_file` of `my_create_attr.c` are one call, as is
  `sysfs_create_group`. `size_show` and `size_store` are one step each. The contents of a
  text are a name. What lies behind the buffer, where a long text goes, is not
  modelled but for its effect on `strlen`; nor is a number that `kstrtoul` refuses.
- Nobody frees the number, the class or the private data of a module that has crashed, and
  it is not unloaded.
- A module is not loaded again on top of the misc device of its failed init. Nobody else
  has `my_platform`'s number 254:22.
- The read of the chip's device id is left out; its control register is as after reset or
  as the driver sets it.
- Overflow of `cnt` is not modelled: the code prints it and nothing depends on it.
- The kernel around the drivers is modelled from the calls the drivers make, and
  marked external.
- Read and write handlers that return their argument and touch no state have no action,
  nor have empty ones (suspend, resume, shutdown, the input device's open and close).

## Plan

All drivers with state are modelled, and every safety property that holds is proved. What
may be added:

1. Action properties that say what liveness rests on, and can be proved: in
   `CompletionRead`, that a woken reader that is let through leaves with data; in
   `KeyWork`, that an item that is queued leaves the queue only to run.
2. The parts of `CallsEnd` and `ExitCompletes` that are safety: that an init or exit
   function with calls left always has one that it can make, or waits for a handler.
3. `QueueJoin` and `QueueLeave` are stated in two modules, for the queue of `down` and for
   that of the completion; they could be one.

## Not modelled

The proc file and the memory examples (`mem/`) are straight-line code without state:
each allocates in init and frees in exit, and nothing runs beside it. Makefiles, shell
scripts and notes have no behaviour of their own; the notes are the source of the claims
that the violation runs check.

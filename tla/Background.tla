----------------------------- MODULE Background -----------------------------
(***************************************************************************)
(* Everything in the repository that goes on running when the handlers of  *)
(* a module have returned: the work and the tasklet of the key's drivers   *)
(* (KeyDrivers), the timer of timer/timer/test.c, the thread of            *)
(* thread/test.c; and timer/jiffies/test.c, which waits for time to pass   *)
(* inside its init.  Each exit function has to stop what init has started  *)
(* before the code goes.  One module is loaded at a time.                  *)
(***************************************************************************)
EXTENDS KeyDrivers

CONSTANTS
  Half,      \* half the range of jiffies: 2^(w - 1) if they have w bits
  HZ,        \* ticks per second
  MaxLate    \* bound: how many ticks an expired timer or delay may wait

ASSUME BackgroundAssumption ==
  /\ Half \in Nat /\ HZ \in Nat \ {0} /\ MaxLate \in Nat
  /\ 3 * HZ < Half /\ MaxLate < Half

VARIABLES
  step,      \* how many calls init has made
  jiffies,
  expires,   \* of the timer, or of my_mdelay
  armed,     \* the timer is pending
  running,   \* timer_main runs
  asked,     \* history: for how many ticks it was armed, or the delay is
  since,     \* history: how many have passed
  thread,    \* "none", "created", "woken", "main", "loop" or "exited"
  stop       \* kthread_should_stop()

clockVars == <<jiffies, asked, since>>
timerVars == <<expires, armed, running>>
threadVars == <<thread, stop>>
bgVars == <<step, clockVars, timerVars, threadVars>>
allVars == <<vars, bgVars>>

Modulus == 2 * Half

Loaded(d, phase) == driver = d /\ mod = phase
Becomes(phase) == mod' = phase /\ UNCHANGED <<irqOn, i, driver, wq, stray, workVars>>

BgInit ==
  /\ Init
  /\ step = 0 /\ jiffies = 0 /\ expires = 0
  /\ armed = FALSE /\ running = FALSE /\ asked = 0 /\ since = 0
  /\ thread = "none" /\ stop = FALSE

\* Time has passed since the last module: jiffies are anything (and left at 0 for
\* the modules that do not look at them).
insmod ==
  /\ tasklet_test_init
  /\ jiffies' \in IF driver' \in {"timer_test", "jiffies_test"} THEN 0..Modulus - 1 ELSE {0}
  /\ step' = 0 /\ expires' = 0 /\ armed' = FALSE /\ asked' = 0 /\ since' = 0
  /\ thread' = "none" /\ stop' = FALSE
  /\ UNCHANGED running

\* Jiffies wrap around.  They only matter while somebody waits for them.
Tick ==
  /\ armed \/ (Loaded("jiffies_test", "init") /\ step = 1)
  /\ since < asked + MaxLate
  /\ jiffies' = (jiffies + 1) % Modulus
  /\ since' = since + 1
  /\ UNCHANGED <<vars, step, timerVars, asked, threadVars>>

\* time_is_after_jiffies(e): the sign of the difference, as a number of that range.
time_is_after_jiffies_plain(e) == e > jiffies

time_is_after_jiffies(e) == (jiffies - e) % Modulus >= Half

WaitFor(ticks) ==
  /\ expires' = (jiffies + ticks) % Modulus
  /\ asked' = ticks /\ since' = 0

-----------------------------------------------------------------------------
(* timer/timer/test.c *)

\* The two mod_timer of test_init: the second one moves the timer, or arms it
\* again if it has expired meanwhile.  The rest of init only logs.
mod_timer ==
  /\ Loaded("timer_test", "init") /\ step < 2
  /\ step' = step + 1
  /\ WaitFor(IF step = 0 THEN 3 * HZ ELSE 1 * HZ)
  /\ armed' = TRUE
  /\ UNCHANGED <<vars, jiffies, running, threadVars>>

timer_init_return ==
  /\ Loaded("timer_test", "init") /\ step = 2
  /\ Becomes("live")
  /\ UNCHANGED bgVars

\* The timer expires, and timer_main runs and ends.
timer_main ==
  /\ armed /\ ~running /\ ~time_is_after_jiffies(expires)
  /\ mod # "oops"
  /\ armed' = FALSE /\ running' = TRUE
  /\ UNCHANGED <<vars, step, clockVars, expires, threadVars>>

timer_main_return ==
  /\ running
  /\ running' = FALSE
  /\ UNCHANGED <<vars, step, clockVars, expires, armed, threadVars>>

timer_exit ==
  /\ Loaded("timer_test", "live")
  /\ Becomes("exit")
  /\ UNCHANGED bgVars

\* del_timer is the commented-out alternative of line 53.
del_timer ==
  /\ Loaded("timer_test", "exit")
  /\ armed' = FALSE
  /\ Becomes("unloaded")
  /\ UNCHANGED <<step, clockVars, expires, running, threadVars>>

del_timer_sync ==
  /\ Loaded("timer_test", "exit") /\ ~running
  /\ armed' = FALSE
  /\ Becomes("unloaded")
  /\ UNCHANGED <<step, clockVars, expires, running, threadVars>>

-----------------------------------------------------------------------------
(* timer/jiffies/test.c: my_mdelay(2000), and an exit function with nothing to do *)

my_mdelay ==
  /\ Loaded("jiffies_test", "init") /\ step = 0
  /\ step' = 1
  /\ WaitFor(2 * HZ)
  /\ UNCHANGED <<vars, jiffies, armed, running, threadVars>>

my_mdelay_return ==
  /\ Loaded("jiffies_test", "init") /\ step = 1
  /\ ~time_is_after_jiffies(expires)
  /\ Becomes("live")
  /\ UNCHANGED bgVars

jiffies_exit ==
  /\ Loaded("jiffies_test", "live")
  /\ Becomes("unloaded")
  /\ UNCHANGED bgVars

-----------------------------------------------------------------------------
(* thread/test.c *)

\* kthread_run: creates the thread, or returns an error that init passes on ...
kthread_create ==
  /\ Loaded("thread_test", "init") /\ step = 0
  /\ \/ thread' = "created" /\ step' = 1 /\ UNCHANGED vars
     \/ Becomes("unloaded") /\ UNCHANGED <<step, thread>>
  /\ UNCHANGED <<clockVars, timerVars, stop>>

\* ... wakes it up ...
wake_up_process ==
  /\ Loaded("thread_test", "init") /\ step = 1
  /\ thread' = "woken" /\ step' = 2
  /\ UNCHANGED <<vars, clockVars, timerVars, stop>>

\* ... and only then is t assigned, and init over.
thread_init_return ==
  /\ Loaded("thread_test", "init") /\ step = 2
  /\ step' = 3
  /\ Becomes("live")
  /\ UNCHANGED <<clockVars, timerVars, threadVars>>

\* The kernel does not call thread_main if the thread is to stop already.
kthread_start ==
  /\ thread = "woken" /\ mod # "oops"
  /\ thread' = IF stop THEN "exited" ELSE "main"
  /\ UNCHANGED <<vars, step, clockVars, timerVars, stop>>

\* thread_main logs t->pid, which follows NULL if t has not been assigned ...
thread_main ==
  /\ thread = "main"
  /\ IF step = 3
     THEN thread' = "loop" /\ UNCHANGED vars
     ELSE thread' = "exited" /\ Becomes("oops")
  /\ UNCHANGED <<step, clockVars, timerVars, stop>>

\* ... and then sleeps until it sees that it should stop.
thread_main_return ==
  /\ thread = "loop" /\ stop
  /\ thread' = "exited"
  /\ UNCHANGED <<vars, step, clockVars, timerVars, stop>>

\* kthread_stop asks the thread to stop and waits until it has.
kthread_stop ==
  /\ Loaded("thread_test", "live")
  /\ stop' = TRUE
  /\ Becomes("exit")
  /\ UNCHANGED <<step, clockVars, timerVars, thread>>

kthread_stop_return ==
  /\ Loaded("thread_test", "exit") /\ thread = "exited"
  /\ Becomes("unloaded")
  /\ UNCHANGED bgVars

-----------------------------------------------------------------------------
TimerStep == mod_timer \/ timer_init_return \/ timer_main_return \/ del_timer_sync
JiffiesStep == my_mdelay \/ my_mdelay_return

ThreadStep ==
  \/ kthread_create \/ wake_up_process \/ thread_init_return
  \/ kthread_start \/ thread_main \/ thread_main_return \/ kthread_stop_return

BgNext ==
  \/ insmod
  \/ LineStep /\ UNCHANGED bgVars
  \/ Tick \/ timer_main \/ timer_exit \/ jiffies_exit \/ kthread_stop
  \/ TimerStep \/ JiffiesStep \/ ThreadStep

BgSpec == BgInit /\ [][BgNext]_allVars

\* Fairness: the workers and the thread are scheduled, msleep ends, time passes
\* for who waits for it, and a call of insmod or rmmod that can go on does.  The
\* key need not be pressed, no module need be loaded or unloaded.
BgFairSpec ==
  /\ BgSpec
  /\ WF_allVars(exit_destroy_workqueue /\ UNCHANGED bgVars)
  /\ \A t \in Items : WF_allVars(WorkStep(t) /\ UNCHANGED bgVars)
  /\ WF_allVars(Tick) /\ WF_allVars(TimerStep)
  /\ WF_allVars(JiffiesStep) /\ WF_allVars(ThreadStep)

-----------------------------------------------------------------------------
BgTypeOK ==
  /\ TypeOK
  /\ step \in 0..3
  /\ jiffies \in 0..Modulus - 1 /\ expires \in 0..Modulus - 1
  /\ armed \in BOOLEAN /\ running \in BOOLEAN
  /\ asked \in 0..3 * HZ /\ since \in 0..asked + MaxLate
  /\ thread \in {"none", "created", "woken", "main", "loop", "exited"}
  /\ stop \in BOOLEAN

\* No code of a module runs, or waits to run, when the module is gone: work is
\* queued only while its workqueue exists, and del_timer_sync and kthread_stop
\* wait for the timer function and the thread.  (Nothing waits for the tasklet of
\* tasklet_test, nor for items on the system's workqueue.)
CodeStays ==
  /\ WorkHasQueue
  /\ mod = "unloaded" => ~armed /\ ~running /\ thread \in {"none", "exited"}

\* Neither the timer nor the delay ends before the time it was last given has
\* passed, also where jiffies wrap around, and where the timer was moved or had
\* expired between the two mod_timer.
NeverEarly ==
  [][(~running /\ running') \/ (Loaded("jiffies_test", "init") /\ mod' # "init" /\ mod' # "oops")
       => since >= asked]_allVars

\* rmmod ends: the handler is gone first, so the queue drains; timer_main returns;
\* the thread sees that it should stop.  (Not that of workqueue_test, which crashes;
\* and any module may crash after tasklet_test.)
ExitCompletes ==
  mod = "exit" /\ driver # "workqueue_test" ~> mod = "unloaded" \/ stray
=============================================================================

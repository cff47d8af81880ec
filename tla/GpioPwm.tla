------------------------------- MODULE GpioPwm -------------------------------
(***************************************************************************)
(* The PWM extension of the LED driver, lab5-1-raspberry-gpio-driver/      *)
(* examples/gpio_pwm.c: a kernel timer toggles the line, processes         *)
(* configure, start and stop it through the device file, and the module is *)
(* unloaded.                                                               *)
(*                                                                         *)
(* One writer per CPU.  The timer expires on the CPU that armed it and its *)
(* callback interrupts the writer there, which spin_lock does not prevent; *)
(* its callback never runs on two CPUs at once.  The period only decides   *)
(* how long the timer waits and is left out: the timer expires at any time *)
(* after it was armed.                                                     *)
(***************************************************************************)
EXTENDS Integers

CONSTANTS
  Cpus,     \* the CPUs, each with a process that may write to the device
  Duties    \* the duty cycles that are written, above 100 too

ASSUME PwmConstants ==
  /\ Cpus \subseteq Nat \ {0}
  /\ Duties \subseteq Nat

Free == 0
None == 0
Timer == -1   \* the callback as the holder of the lock

VARIABLES
  pwm_duty,   \* the module parameter, also the target of sscanf
  led_pwm,    \* duty_cycle and state of struct pwm_control
  lock,       \* led_pwm.lock: Free, a CPU whose writer holds it, or Timer
  timer,      \* the CPU led_pwm.timer is pending on, or None
  callback,   \* the CPU pwm_timer_callback runs on, or None, and where it is
  led,        \* the level of the line gpio_pin
  writer,     \* where the writer of each CPU is
  module,     \* "loaded", in cleanup_pwm, or "gone"
  hole,       \* history: a duty cycle escaped the test
  inflight    \* history: the callback was running when cleanup_pwm was done

pwmVars == <<pwm_duty, led_pwm, lock, timer, callback, led, writer, module, hole,
             inflight>>

Idle == [cpu |-> None, at |-> "idle"]

\* init_pwm copies the parameter, which nothing has tested.
PwmInit ==
  /\ pwm_duty \in Duties
  /\ led_pwm = [duty |-> pwm_duty, state |-> 0]
  /\ lock = Free
  /\ timer = None
  /\ callback = Idle
  /\ led = 0
  /\ writer = [c \in Cpus |-> "idle"]
  /\ module = "loaded"
  /\ hole = (pwm_duty > 100)
  /\ inflight = FALSE

-----------------------------------------------------------------------------
\* pwm_timer_callback.

Expire ==
  /\ timer # None
  /\ callback = Idle
  /\ callback' = [cpu |-> timer, at |-> "lock"]
  /\ timer' = None
  /\ UNCHANGED <<pwm_duty, led_pwm, lock, led, writer, module, hole, inflight>>

CallbackLock ==
  /\ callback.at = "lock"
  /\ lock = Free
  /\ lock' = Timer
  /\ callback' = [callback EXCEPT !.at = "toggle"]
  /\ UNCHANGED <<pwm_duty, led_pwm, timer, led, writer, module, hole, inflight>>

CallbackToggle ==
  /\ callback.at = "toggle"
  /\ led' = 1 - led_pwm.state
  /\ led_pwm' = [led_pwm EXCEPT !.state = 1 - @]
  /\ callback' = [callback EXCEPT !.at = "rearm"]
  /\ UNCHANGED <<pwm_duty, lock, timer, writer, module, hole, inflight>>

CallbackRearm ==
  /\ callback.at = "rearm"
  /\ timer' = callback.cpu
  /\ lock' = Free
  /\ callback' = Idle
  /\ UNCHANGED <<pwm_duty, led_pwm, led, writer, module, hole, inflight>>

-----------------------------------------------------------------------------
\* gpio_write_with_pwm.  The writer of CPU c moves only while the callback does
\* not run there.

At(c, label) == writer[c] = label /\ callback.cpu # c
To(c, label) == writer' = [writer EXCEPT ![c] = label]

\* mod_timer arms the timer on the CPU that calls it, but leaves a timer whose
\* callback is running where it is.
mod_timer(c) == timer' = IF callback = Idle THEN c ELSE callback.cpu

\* Another writer has passed the test, or is about to, and has not copied yet.
Overtaken(c) == \E d \in Cpus \ {c} : writer[d] \in {"test", "lock", "copy"}

\* "pwm <period> <duty>": sscanf stores into the module parameters.
PwmCommand(c, d) ==
  /\ At(c, "idle") /\ module = "loaded"
  /\ pwm_duty' = d
  /\ hole' = (hole \/ Overtaken(c))
  /\ To(c, "test")
  /\ UNCHANGED <<led_pwm, lock, timer, callback, led, module, inflight>>

\* Mutant: the duty cycle is not tested.
PwmUntested(c) ==
  /\ At(c, "test")
  /\ To(c, "lock")
  /\ UNCHANGED <<pwm_duty, led_pwm, lock, timer, callback, led, module, hole, inflight>>

\* A duty cycle above 100 is -EINVAL; the parameter keeps it.
PwmTest(c) ==
  /\ At(c, "test")
  /\ To(c, IF pwm_duty > 100 THEN "idle" ELSE "lock")
  /\ UNCHANGED <<pwm_duty, led_pwm, lock, timer, callback, led, module, hole, inflight>>

PwmLock(c) ==
  /\ At(c, "lock")
  /\ lock = Free
  /\ lock' = c
  /\ To(c, "copy")
  /\ UNCHANGED <<pwm_duty, led_pwm, timer, callback, led, module, hole, inflight>>

PwmCopy(c) ==
  /\ At(c, "copy")
  /\ led_pwm' = [led_pwm EXCEPT !.duty = pwm_duty]
  /\ To(c, IF timer # None THEN "restart" ELSE "unlock")
  /\ UNCHANGED <<pwm_duty, lock, timer, callback, led, module, hole, inflight>>

\* del_timer and mod_timer; the timer may have expired since timer_pending.
PwmRestart(c) ==
  /\ At(c, "restart")
  /\ led_pwm' = [led_pwm EXCEPT !.state = 0]
  /\ led' = 0
  /\ mod_timer(c)
  /\ To(c, "unlock")
  /\ UNCHANGED <<pwm_duty, lock, callback, module, hole, inflight>>

\* Mutant: the lock is kept.
PwmKeepsLock(c) ==
  /\ At(c, "unlock")
  /\ To(c, "idle")
  /\ UNCHANGED <<pwm_duty, led_pwm, lock, timer, callback, led, module, hole, inflight>>

PwmUnlock(c) ==
  /\ At(c, "unlock")
  /\ lock' = Free
  /\ To(c, "idle")
  /\ UNCHANGED <<pwm_duty, led_pwm, timer, callback, led, module, hole, inflight>>

\* "pwm_start" and "pwm_stop" test timer_pending first, without the lock, and do
\* nothing if the answer is not what they want.
PwmStartTest(c) ==
  /\ At(c, "idle") /\ module = "loaded" /\ timer = None
  /\ To(c, "start")
  /\ UNCHANGED <<pwm_duty, led_pwm, lock, timer, callback, led, module, hole, inflight>>

PwmStart(c) ==
  /\ At(c, "start")
  /\ led_pwm' = [led_pwm EXCEPT !.state = 0]
  /\ led' = 0
  /\ mod_timer(c)
  /\ To(c, "idle")
  /\ UNCHANGED <<pwm_duty, lock, callback, module, hole, inflight>>

PwmStopTest(c) ==
  /\ At(c, "idle") /\ module = "loaded" /\ timer # None
  /\ To(c, "stop")
  /\ UNCHANGED <<pwm_duty, led_pwm, lock, timer, callback, led, module, hole, inflight>>

PwmStop(c) ==
  /\ At(c, "stop")
  /\ timer' = None
  /\ led' = 0
  /\ To(c, "idle")
  /\ UNCHANGED <<pwm_duty, led_pwm, lock, callback, module, hole, inflight>>

\* gpio_write of the driver.
PlainWrite(c, v) ==
  /\ At(c, "idle") /\ module = "loaded"
  /\ led' = v
  /\ UNCHANGED <<pwm_duty, led_pwm, lock, timer, callback, writer, module, hole, inflight>>

\* module_param(pwm_duty, uint, 0644).
WriteDuty(d) ==
  /\ module = "loaded"
  /\ pwm_duty' = d
  /\ hole' = (hole \/ \E c \in Cpus : writer[c] \in {"test", "lock", "copy"})
  /\ UNCHANGED <<led_pwm, lock, timer, callback, led, writer, module, inflight>>

-----------------------------------------------------------------------------
\* cleanup_pwm, when no process has the device open.  del_timer does not wait
\* for a callback that is running.

CleanupTest ==
  /\ module = "loaded"
  /\ \A c \in Cpus : writer[c] = "idle"
  /\ module' = IF timer # None THEN "delete" ELSE "gone"
  /\ inflight' = (timer = None /\ callback # Idle)
  /\ UNCHANGED <<pwm_duty, led_pwm, lock, timer, callback, led, writer, hole>>

\* Mutant: the timer is left armed.
CleanupLeavesTimer ==
  /\ module = "delete"
  /\ module' = "gone"
  /\ inflight' = (callback # Idle)
  /\ UNCHANGED <<pwm_duty, led_pwm, lock, timer, callback, led, writer, hole>>

CleanupDelete ==
  /\ module = "delete"
  /\ timer' = None
  /\ module' = "gone"
  /\ inflight' = (callback # Idle)
  /\ UNCHANGED <<pwm_duty, led_pwm, lock, callback, led, writer, hole>>

-----------------------------------------------------------------------------
Callback == Expire \/ CallbackLock \/ CallbackToggle \/ CallbackRearm

PwmStep(c) ==
  \/ PwmTest(c) \/ PwmLock(c) \/ PwmCopy(c) \/ PwmRestart(c) \/ PwmUnlock(c)
  \/ PwmStart(c) \/ PwmStop(c)

PwmNext ==
  \/ Callback
  \/ \E c \in Cpus : \/ PwmStep(c)
                     \/ \E d \in Duties : PwmCommand(c, d)
                     \/ PwmStartTest(c) \/ PwmStopTest(c)
                     \/ \E v \in {0, 1} : PlainWrite(c, v)
  \/ \E d \in Duties : WriteDuty(d)
  \/ CleanupTest \/ CleanupDelete

\* A timer that stays armed expires, code that is running goes on, and the lock
\* is handed to waiting CPUs in turn, as the kernel's queued spinlocks do.
\* Commands are never owed.
PwmFairness ==
  /\ WF_pwmVars(Expire) /\ WF_pwmVars(CallbackToggle) /\ WF_pwmVars(CallbackRearm)
  /\ SF_pwmVars(CallbackLock)
  /\ \A c \in Cpus : SF_pwmVars(PwmStep(c))
  /\ WF_pwmVars(CleanupDelete)

-----------------------------------------------------------------------------
PwmTypeOK ==
  /\ pwm_duty \in Duties
  /\ led_pwm \in [duty : Duties, state : {0, 1}]
  /\ lock \in Cpus \cup {Free, Timer}
  /\ timer \in Cpus \cup {None}
  /\ callback \in [cpu : Cpus \cup {None}, at : {"idle", "lock", "toggle", "rearm"}]
  /\ led \in {0, 1}
  /\ writer \in [Cpus -> {"idle", "test", "lock", "copy", "restart", "unlock",
                          "start", "stop"}]
  /\ module \in {"loaded", "delete", "gone"}
  /\ {hole, inflight} \subseteq BOOLEAN

\* The off-time 100 - duty_cycle never wraps: the callback works with a duty
\* cycle of at most 100, although rejected values stay in pwm_duty, unless the
\* module was loaded with one or pwm_duty was overwritten, by another writer's
\* sscanf or through sysfs, between the test of a command and its copy.
DutyInRange == ~hole => led_pwm.duty <= 100

\* No callback runs in a module that is gone, in memory that has been freed, but
\* in one case: it was already running when cleanup_pwm was done, which del_timer
\* does not notice; then it arms itself for ever.
UnloadedQuiet ==
  module = "gone" /\ ~inflight => timer = None /\ callback = Idle

\* The callback spins, with interrupts off, for the lock that the writer it has
\* interrupted on its CPU holds.
SelfDeadlock == callback.at = "lock" /\ lock = callback.cpu

\* Every command returns and every armed timer gets to toggle the line or is
\* taken down by a stop, however writers and callback compete for the lock,
\* except in one case: the callback interrupts a writer that holds the lock.
OnlySelfDeadlocks ==
  /\ \A c \in Cpus : (writer[c] # "idle") ~> (writer[c] = "idle" \/ SelfDeadlock)
  /\ (timer # None) ~> \/ callback.at = "toggle"
                       \/ timer = None /\ callback = Idle
                       \/ SelfDeadlock

-----------------------------------------------------------------------------
PwmSpec == PwmInit /\ [][PwmNext]_pwmVars /\ PwmFairness

\* The inductive invariant of GpioProofs: a writer that has passed the test copies
\* a value in range, and a module being unloaded has no writers.
PwmIInv ==
  /\ PwmTypeOK /\ DutyInRange /\ UnloadedQuiet
  /\ ~hole => \A c \in Cpus : writer[c] \in {"lock", "copy"} => pwm_duty <= 100
  /\ module # "loaded" => \A c \in Cpus : writer[c] = "idle"
=============================================================================

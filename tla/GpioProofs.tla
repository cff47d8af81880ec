------------------------------ MODULE GpioProofs ------------------------------
(***************************************************************************)
(* Proofs about the LED driver and its two extensions, for every set of    *)
(* GPIO lines, parameters, CPUs, duty cycles and readers.                  *)
(***************************************************************************)
EXTENDS GpioDriver, GpioPwm, GpioInput, TLAPS

-----------------------------------------------------------------------------
\* The LED driver.

\* The steps of gpio_led_init keep track of the lines.
LEMMA LoadingInv ==
  ASSUME IInv,
         \/ Insmod
         \/ Register("region", "class") \/ Register("class", "device")
         \/ Register("device", "cdev") \/ Register("cdev", "request")
         \/ RequestLed \/ DirectionLed \/ RequestButton \/ DirectionButton
  PROVE  IInv'
<1> USE DEF IInv, TypeOK, LineOwners, HoldsLed, MayHoldButton, params, lines, Loading, Unloading
<1>1. CASE Insmod
  BY <1>1 DEF Insmod
<1>2. CASE \/ Register("region", "class") \/ Register("class", "device")
           \/ Register("device", "cdev") \/ Register("cdev", "request")
  BY <1>2 DEF Register
<1>3. CASE RequestLed
  BY <1>3 DEF RequestLed, Error, gpio_is_valid
<1>4. CASE DirectionLed
  BY <1>4 DEF DirectionLed, Error, gpio_free, gpio_set_value
<1>5. CASE RequestButton
  BY <1>5, GpioConstants DEF RequestButton, GpioConstants
<1>6. CASE DirectionButton
  BY <1>6, GpioConstants DEF DirectionButton, gpio_free, GpioConstants
<1> QED
  BY <1>1, <1>2, <1>3, <1>4, <1>5, <1>6

\* The steps of gpio_led_exit give the lines back.
LEMMA UnloadingInv ==
  ASSUME IInv, Rmmod \/ ExitOff \/ ExitFree \/ ExitButton \/ ExitRegs
  PROVE  IInv'
<1> USE DEF IInv, TypeOK, LineOwners, HoldsLed, MayHoldButton, params, lines, Loading, Unloading
<1>1. CASE Rmmod
  BY <1>1 DEF Rmmod
<1>2. CASE ExitOff
  BY <1>2 DEF ExitOff, gpio_set_value
<1>3. CASE ExitFree
  BY <1>3 DEF ExitFree, gpio_free
<1>4. CASE ExitButton
  BY <1>4, GpioConstants DEF ExitButton, gpio_free, GpioConstants
<1>5. CASE ExitRegs
  BY <1>5 DEF ExitRegs
<1> QED
  BY <1>1, <1>2, <1>3, <1>4, <1>5

\* Neither the device file nor the other consumers of lines disturb the driver's.
LEMMA ServingInv ==
  ASSUME IInv,
         \/ gpio_open \/ gpio_release \/ WriteParams
         \/ \E c \in {"0", "1"} : gpio_write(c)
         \/ \E p \in Pins : OtherRequests(p) \/ OtherFrees(p)
  PROVE  IInv'
<1> USE DEF IInv, TypeOK, LineOwners, HoldsLed, MayHoldButton, params, lines, Loading, Unloading
<1>1. CASE gpio_open
  BY <1>1, GpioConstants DEF gpio_open, GpioConstants
<1>2. CASE gpio_release
  BY <1>2, GpioConstants DEF gpio_release, GpioConstants
<1>3. CASE WriteParams
  BY <1>3 DEF WriteParams
<1>4. CASE \E c \in {"0", "1"} : gpio_write(c)
  BY <1>4 DEF gpio_write, gpio_set_value
<1>5. CASE \E p \in Pins : OtherRequests(p) \/ OtherFrees(p)
  <2> PICK p \in Pins : OtherRequests(p) \/ OtherFrees(p)
    BY <1>5
  <2>1. CASE OtherRequests(p)
    BY <2>1 DEF OtherRequests
  <2>2. CASE OtherFrees(p)
    BY <2>2 DEF OtherFrees
  <2> QED
    BY <2>1, <2>2
<1> QED
  BY <1>1, <1>2, <1>3, <1>4, <1>5

\* The inductive invariant of the driver.
THEOREM GpioInvariant == Spec => []IInv
<1>1. Init => IInv
  <2> SUFFICES ASSUME Init PROVE IInv
    OBVIOUS
  <2>1. use_button \in BOOLEAN /\ written \in BOOLEAN
    BY Zenon DEF Init
  <2>2. TypeOK
    BY <2>1, GpioConstants DEF Init, TypeOK, GpioConstants
  <2> QED
    BY <2>2 DEF Init, IInv, LineOwners, HoldsLed, MayHoldButton
<1>2. IInv /\ UNCHANGED vars => IInv'
  BY DEF vars, IInv, TypeOK, LineOwners
<1>3. IInv /\ [Next]_vars => IInv'
  BY <1>2, LoadingInv, UnloadingInv, ServingInv DEF Next
<1> QED
  BY <1>1, <1>3, PTL DEF Spec

\* Wherever gpio_led_init fails and after gpio_led_exit, no registration and, while
\* nobody writes the parameters, no line outlives the module.
THEOREM ModuleLeavesNothing == Spec => []NothingLeftBehind
<1>1. IInv => NothingLeftBehind
  BY DEF IInv, TypeOK, LineOwners, HoldsLed, MayHoldButton, NothingLeftBehind
<1> QED
  BY <1>1, GpioInvariant, PTL

\* While nobody writes the parameters, the line that the driver drives and frees
\* is its own, whatever the other consumers do.
THEOREM DriverOwnsLine == Spec => []OwnsItsLine
<1>1. IInv => OwnsItsLine
  BY DEF IInv, LineOwners, HoldsLed, OwnsItsLine
<1> QED
  BY <1>1, GpioInvariant, PTL
-----------------------------------------------------------------------------
\* The PWM extension.

\* The timer callback changes neither a duty cycle nor a writer, and in a module
\* that was unloaded with nothing running it has no step.
LEMMA CallbackInv ==
  ASSUME PwmIInv, Callback
  PROVE  PwmIInv'
<1> USE DEF PwmIInv, PwmTypeOK, DutyInRange, UnloadedQuiet, Idle, None, Free, Timer
<1>1. CASE Expire
  BY <1>1 DEF Expire
<1>2. CASE CallbackLock
  BY <1>2 DEF CallbackLock
<1>3. CASE CallbackToggle
  BY <1>3 DEF CallbackToggle
<1>4. CASE CallbackRearm
  BY <1>4 DEF CallbackRearm
<1> QED
  BY <1>1, <1>2, <1>3, <1>4 DEF Callback

\* A step of a command that is under way.
LEMMA WriterInv ==
  ASSUME PwmIInv, NEW c \in Cpus, PwmStep(c)
  PROVE  PwmIInv'
<1> USE DEF PwmIInv, PwmTypeOK, DutyInRange, UnloadedQuiet, Idle, None, Free, Timer, At, To
<1>1. CASE PwmTest(c)
  BY <1>1, PwmConstants DEF PwmTest, PwmConstants
<1>2. CASE PwmLock(c)
  BY <1>2 DEF PwmLock
<1>3. CASE PwmCopy(c)
  BY <1>3 DEF PwmCopy
<1>4. CASE PwmRestart(c)
  BY <1>4 DEF PwmRestart, mod_timer
<1>5. CASE PwmUnlock(c)
  BY <1>5 DEF PwmUnlock
<1>6. CASE PwmStart(c)
  BY <1>6 DEF PwmStart, mod_timer
<1>7. CASE PwmStop(c)
  BY <1>7 DEF PwmStop
<1> QED
  BY <1>1, <1>2, <1>3, <1>4, <1>5, <1>6, <1>7 DEF PwmStep

\* The beginning of a command, or a store through sysfs.
LEMMA CommandInv ==
  ASSUME PwmIInv,
         \/ \E c \in Cpus : \/ \E d \in Duties : PwmCommand(c, d)
                           \/ PwmStartTest(c) \/ PwmStopTest(c)
                           \/ \E v \in {0, 1} : PlainWrite(c, v)
         \/ \E d \in Duties : WriteDuty(d)
  PROVE  PwmIInv'
<1> USE DEF PwmIInv, PwmTypeOK, DutyInRange, UnloadedQuiet, Idle, None, Free, Timer, At, To
<1>1. ASSUME NEW c \in Cpus, NEW d \in Duties, PwmCommand(c, d) PROVE PwmIInv'
  <2>1. hole' \in BOOLEAN /\ (~hole' => ~hole /\ ~Overtaken(c))
    BY <1>1, Zenon DEF PwmCommand
  <2>2. /\ writer[c] = "idle" /\ module = "loaded" /\ pwm_duty' = d
        /\ writer' = [writer EXCEPT ![c] = "test"]
        /\ UNCHANGED <<led_pwm, lock, timer, callback, led, module, inflight>>
    BY <1>1 DEF PwmCommand
  <2>3. PwmTypeOK' /\ DutyInRange' /\ UnloadedQuiet'
    BY <2>1, <2>2
  <2>4. ~hole' => \A e \in Cpus : writer'[e] \notin {"lock", "copy"}
    BY <2>1, <2>2 DEF Overtaken
  <2> QED
    BY <2>2, <2>3, <2>4
<1>2. ASSUME NEW c \in Cpus, PwmStartTest(c) PROVE PwmIInv'
  BY <1>2 DEF PwmStartTest
<1>3. ASSUME NEW c \in Cpus, PwmStopTest(c) PROVE PwmIInv'
  BY <1>3 DEF PwmStopTest
<1>4. ASSUME NEW c \in Cpus, NEW v \in {0, 1}, PlainWrite(c, v) PROVE PwmIInv'
  BY <1>4 DEF PlainWrite
<1>5. ASSUME NEW d \in Duties, WriteDuty(d) PROVE PwmIInv'
  <2>1. /\ hole' \in BOOLEAN
        /\ ~hole' => ~hole /\ ~ \E c \in Cpus : writer[c] \in {"test", "lock", "copy"}
    BY <1>5, Zenon DEF WriteDuty
  <2>2. /\ module = "loaded" /\ pwm_duty' = d
        /\ UNCHANGED <<led_pwm, lock, timer, callback, led, writer, module, inflight>>
    BY <1>5 DEF WriteDuty
  <2> QED
    BY <2>1, <2>2
<1> QED
  BY <1>1, <1>2, <1>3, <1>4, <1>5

\* cleanup_pwm: the timer is gone, or the callback was running and is recorded.
LEMMA CleanupInv ==
  ASSUME PwmIInv, CleanupTest \/ CleanupDelete
  PROVE  PwmIInv'
<1> USE DEF PwmIInv, PwmTypeOK, DutyInRange, UnloadedQuiet, Idle, None, Free, Timer
<1>1. CASE CleanupTest
  <2>1. inflight' \in BOOLEAN /\ (~inflight' => (timer = None => callback = Idle))
    BY <1>1, Zenon DEF CleanupTest
  <2>2. /\ \A c \in Cpus : writer[c] = "idle"
        /\ module' = IF timer # None THEN "delete" ELSE "gone"
        /\ UNCHANGED <<pwm_duty, led_pwm, lock, timer, callback, led, writer, hole>>
    BY <1>1 DEF CleanupTest
  <2> QED
    BY <2>1, <2>2
<1>2. CASE CleanupDelete
  BY <1>2 DEF CleanupDelete
<1> QED
  BY <1>1, <1>2

\* The inductive invariant of the PWM extension.
THEOREM PwmInvariant == PwmSpec => []PwmIInv
<1>1. PwmInit => PwmIInv
  <2> SUFFICES ASSUME PwmInit PROVE PwmIInv
    OBVIOUS
  <2>1. hole \in BOOLEAN /\ (~hole => ~(pwm_duty > 100))
    <3>1. hole = (pwm_duty > 100)
      BY DEF PwmInit
    <3>2. (pwm_duty > 100) \in BOOLEAN
      OBVIOUS
    <3> QED
      BY <3>1, <3>2, Zenon
  <2>2. inflight \in BOOLEAN
    BY Zenon DEF PwmInit
  <2>3. pwm_duty \in Nat
    BY PwmConstants DEF PwmInit, PwmConstants
  <2>4. PwmTypeOK
    BY <2>1, <2>2 DEF PwmInit, PwmTypeOK, Idle, None, Free, Timer
  <2> QED
    BY <2>1, <2>3, <2>4
      DEF PwmInit, PwmIInv, DutyInRange, UnloadedQuiet, Idle, None, Free, Timer
<1>2. PwmIInv /\ UNCHANGED pwmVars => PwmIInv'
  BY DEF pwmVars, PwmIInv, PwmTypeOK, DutyInRange, UnloadedQuiet
<1>3. PwmIInv /\ [PwmNext]_pwmVars => PwmIInv'
  BY <1>2, CallbackInv, WriterInv, CommandInv, CleanupInv DEF PwmNext
<1> QED
  BY <1>1, <1>3, PTL DEF PwmSpec

\* Without one of the named holes the callback works with a duty cycle of at most
\* 100, whatever is written to the device and on however many CPUs.
THEOREM DutyNeverWraps == PwmSpec => []DutyInRange
<1>1. PwmIInv => DutyInRange
  BY DEF PwmIInv
<1> QED
  BY <1>1, PwmInvariant, PTL

\* A callback runs in a module that is gone only if it was running when cleanup_pwm
\* was done.
THEOREM NoCallbackInFreedModule == PwmSpec => []UnloadedQuiet
<1>1. PwmIInv => UnloadedQuiet
  BY DEF PwmIInv
<1> QED
  BY <1>1, PwmInvariant, PTL

-----------------------------------------------------------------------------
\* The button extension.

\* Loading, unloading and the parameter.
LEMMA WiringInv ==
  ASSUME InputIInv,
         \/ \E p \in ButtonPins : ButtonRequest(p) \/ WriteButtonGpio(p)
         \/ ButtonDirection \/ ButtonIrq \/ CleanupIrq \/ CleanupLine
  PROVE  InputIInv'
<1> USE DEF InputIInv, InputTypeOK, counting, NoIrq
<1>1. ASSUME NEW p \in ButtonPins, ButtonRequest(p) PROVE InputIInv'
  <2>1. /\ button = "off" /\ button' = "direction" /\ button_gpio' = p /\ line' = line \cup {p}
        /\ button_event_count' = 0 /\ UNCHANGED <<events, handler, reader, irq, moved>>
    BY <1>1 DEF ButtonRequest
  <2>2. 0 \in (-MaxEvents)..MaxEvents /\ 0 <= events
    BY InputConstants DEF InputConstants
  <2>3. InputTypeOK'
    BY <2>1, <2>2
  <2> QED
    BY <2>1, <2>2, <2>3
<1>2. ASSUME NEW p \in ButtonPins, WriteButtonGpio(p) PROVE InputIInv'
  BY <1>2 DEF WriteButtonGpio
<1>3. CASE ButtonDirection
  BY <1>3 DEF ButtonDirection
<1>4. CASE ButtonIrq
  BY <1>4 DEF ButtonIrq
<1>5. CASE CleanupIrq
  BY <1>5 DEF CleanupIrq
<1>6. CASE CleanupLine
  BY <1>6 DEF CleanupLine
<1> QED
  BY <1>1, <1>2, <1>3, <1>4, <1>5, <1>6

\* A step of one process in which the count stays as it is or sinks.
LEMMA GoesInv ==
  ASSUME InputIInv, NEW r \in Readers, NEW from,
         NEW to \in {"idle", "wait", "asleep", "copy", "take", "poll", "polling"},
         Goes(r, from, to), UNCHANGED <<events, handler>>,
         \/ UNCHANGED button_event_count
         \/ button_event_count > -MaxEvents /\ button_event_count' = button_event_count - 1
  PROVE  InputIInv'
<1>1. button_event_count' \in (-MaxEvents)..MaxEvents /\ button_event_count' <= events'
  BY InputConstants DEF InputIInv, InputTypeOK, InputConstants
<1> QED
  BY <1>1 DEF InputIInv, InputTypeOK, Goes, wiring

\* The interrupt and the processes leave the wiring alone.
LEMMA ReadingInv ==
  ASSUME InputIInv,
         \/ Interrupt \/ InterruptWakes
         \/ \E r \in Readers : \/ ReadTest(r) \/ ReaderStep(r) \/ Signal(r)
                               \/ gpio_poll(r) \/ PollTimeout(r)
  PROVE  InputIInv'
<1>1. CASE Interrupt
  <2>1. /\ button_event_count' \in (-MaxEvents)..MaxEvents /\ button_event_count' <= events'
        /\ events' \in 0..MaxEvents
    BY <1>1, InputConstants DEF Interrupt, InputIInv, InputTypeOK, InputConstants
  <2> QED
    BY <1>1, <2>1 DEF Interrupt, InputIInv, InputTypeOK, wiring
<1>2. CASE InterruptWakes
  <2>1. \A r \in Readers :
          (CASE reader[r] = "asleep"  -> "wait"
             [] reader[r] = "polling" -> "poll"
             [] OTHER                 -> reader[r])
          \in {"idle", "wait", "asleep", "copy", "take", "poll", "polling"}
    BY DEF InputIInv, InputTypeOK
  <2>2. reader' \in [Readers -> {"idle", "wait", "asleep", "copy", "take", "poll", "polling"}]
    BY <1>2, <2>1 DEF InterruptWakes
  <2> QED
    BY <1>2, <2>2 DEF InterruptWakes, InputIInv, InputTypeOK, wiring
<1>3. ASSUME NEW r \in Readers,
             ReadTest(r) \/ ReaderStep(r) \/ Signal(r) \/ gpio_poll(r) \/ PollTimeout(r)
      PROVE  InputIInv'
  <2> DEFINE Places == {"idle", "wait", "asleep", "copy", "take", "poll", "polling"}
  <2>1. \E from, to \in Places : Goes(r, from, to)
    BY <1>3
      DEF ReadTest, ReaderStep, WaitEvent, ReadCopy, ReadTake, Signal, gpio_poll,
          PollTimeout
  <2>2. /\ UNCHANGED <<events, handler>>
        /\ \/ UNCHANGED button_event_count
           \/ button_event_count > -MaxEvents /\ button_event_count' = button_event_count - 1
    BY <1>3
      DEF ReadTest, ReaderStep, WaitEvent, ReadCopy, ReadTake, Signal, gpio_poll,
          PollTimeout,
                counting
  <2> QED
    BY <2>1, <2>2, GoesInv
<1> QED
  BY <1>1, <1>2, <1>3

\* The inductive invariant of the button extension.
THEOREM InputInvariant == InputSpec => []InputIInv
<1>1. InputInit => InputIInv
  <2> SUFFICES ASSUME InputInit PROVE InputIInv
    OBVIOUS
  <2>1. moved \in BOOLEAN
    BY Zenon DEF InputInit
  <2>2. 0 \in (-MaxEvents)..MaxEvents /\ 0 \in 0..MaxEvents
    BY InputConstants DEF InputConstants
  <2> QED
    BY <2>1, <2>2 DEF InputInit, InputIInv, InputTypeOK
<1>2. InputIInv /\ UNCHANGED inputVars => InputIInv'
  BY DEF inputVars, InputIInv, InputTypeOK
<1>3. InputIInv /\ [InputNext]_inputVars => InputIInv'
  BY <1>2, WiringInv, ReadingInv DEF InputNext
<1> QED
  BY <1>1, <1>3, PTL DEF InputSpec

\* An interrupt is requested only for a line of the driver, and a driver without
\* button holds neither, whichever call of init_button failed, for any lines.
THEOREM ButtonGivenBack == InputSpec => []ButtonReleased
<1>1. InputIInv => ButtonReleased
  BY DEF InputIInv, ButtonReleased
<1> QED
  BY <1>1, InputInvariant, PTL
=============================================================================

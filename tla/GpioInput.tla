------------------------------ MODULE GpioInput ------------------------------
(***************************************************************************)
(* The button extension of the LED driver, lab5-1-raspberry-gpio-driver/   *)
(* examples/gpio_input.c: the button's interrupt counts events and wakes   *)
(* processes that read or poll the device.                                 *)
(*                                                                         *)
(* The kernel is modelled from how the extension uses it.                  *)
(* wait_event_interruptible queues the process before it tests its         *)
(* condition, so the test and the falling asleep are one step with respect *)
(* to wake_up_interruptible; a signal ends the wait, and the extension     *)
(* ignores that it did.  free_irq waits for a handler that is running.     *)
(***************************************************************************)
EXTENDS Integers

CONSTANTS
  Readers,      \* processes that have the device open
  ButtonPins,   \* values of the parameter button_gpio; negative ones are invalid
  MaxEvents     \* bound: button interrupts in one behaviour, and reads too many

ASSUME InputConstants ==
  /\ ButtonPins \subseteq Int
  /\ MaxEvents \in Nat

NoIrq == -1

VARIABLES
  button_event_count,
  events,        \* interrupts so far
  handler,       \* "idle", or "wake" between the two calls of the handler
  reader,        \* where each process is in gpio_read_extended or gpio_poll
  button_gpio,   \* the parameter
  line,          \* the lines that gpio_request has given to the extension
  irq,           \* the line whose interrupt is requested (irq_number), or NoIrq
  button,        \* where init_button or cleanup_button is, "off" or "on"
  moved          \* history: somebody has written button_gpio of the loaded module

inputVars == <<button_event_count, events, handler, reader, button_gpio, line, irq,
               button, moved>>
wiring == <<button_gpio, line, irq, button, moved>>
counting == <<button_event_count, events, handler>>

InputInit ==
  /\ button_event_count = 0
  /\ events = 0
  /\ handler = "idle"
  /\ reader = [r \in Readers |-> "idle"]
  /\ button_gpio \in ButtonPins
  /\ line = {}
  /\ irq = NoIrq
  /\ button = "off"
  /\ moved = FALSE

-----------------------------------------------------------------------------
\* The module is loaded and runs init_button: each call fails or leads to the
\* next; the failures after the request give the line back.

Valid(p) == p >= 0

\* An invalid line, or one that is taken, leaves the module unloaded.
ButtonRequest(p) ==
  /\ button = "off" /\ \A r \in Readers : reader[r] = "idle"
  /\ Valid(p) /\ p \notin line
  /\ button_gpio' = p
  /\ button_event_count' = 0
  /\ line' = line \cup {p}
  /\ button' = "direction"
  /\ UNCHANGED <<events, handler, reader, irq, moved>>

ButtonDirection ==
  /\ button = "direction"
  /\ \/ button' = "irq" /\ UNCHANGED line
     \/ button' = "off" /\ line' = line \ {button_gpio}
  /\ UNCHANGED <<counting, reader, button_gpio, irq, moved>>

\* Mutant: the line is not given back when the interrupt is refused.
ButtonIrqKeepsLine ==
  /\ button = "irq"
  /\ \/ Valid(button_gpio) /\ irq' = button_gpio /\ button' = "on"
     \/ button' = "off" /\ UNCHANGED irq
  /\ UNCHANGED <<counting, reader, button_gpio, line, moved>>

ButtonIrq ==
  /\ button = "irq"
  /\ \/ Valid(button_gpio) /\ irq' = button_gpio /\ button' = "on" /\ UNCHANGED line
     \/ button' = "off" /\ line' = line \ {button_gpio} /\ UNCHANGED irq
  /\ UNCHANGED <<counting, reader, button_gpio, moved>>

\* cleanup_button, when no process has the device open.
CleanupIrq ==
  /\ button = "on" /\ handler = "idle"
  /\ \A r \in Readers : reader[r] = "idle"
  /\ irq' = NoIrq
  /\ button' = "free"
  /\ UNCHANGED <<counting, reader, button_gpio, line, moved>>

CleanupLine ==
  /\ button = "free"
  /\ line' = line \ {button_gpio}
  /\ button' = "off"
  /\ UNCHANGED <<counting, reader, button_gpio, irq, moved>>

\* module_param(button_gpio, int, 0644).
WriteButtonGpio(p) ==
  /\ button # "off"
  /\ button_gpio' = p
  /\ moved' = TRUE
  /\ UNCHANGED <<counting, reader, line, irq, button>>

-----------------------------------------------------------------------------
\* button_interrupt_handler: count, then wake everyone on the queue.

Interrupt ==
  /\ irq # NoIrq /\ handler = "idle" /\ events < MaxEvents
  /\ button_event_count' = button_event_count + 1
  /\ events' = events + 1
  /\ handler' = "wake"
  /\ UNCHANGED <<reader, wiring>>

InterruptWakes ==
  /\ handler = "wake"
  /\ handler' = "idle"
  /\ reader' = [r \in Readers |-> CASE reader[r] = "asleep"  -> "wait"
                                    [] reader[r] = "polling" -> "poll"
                                    [] OTHER                 -> reader[r]]
  /\ UNCHANGED <<button_event_count, events, wiring>>

-----------------------------------------------------------------------------
\* gpio_read_extended and gpio_poll, each step of one process.

Goes(r, from, to) ==
  /\ reader[r] = from
  /\ reader' = [reader EXCEPT ![r] = to]
  /\ UNCHANGED wiring

\* The first test: -EAGAIN if the file is non-blocking and nothing has happened.
ReadTest(r) ==
  /\ button = "on"
  /\ \/ button_event_count = 0 /\ Goes(r, "idle", "wait")
     \/ button_event_count # 0 /\ Goes(r, "idle", "copy")
  /\ UNCHANGED counting

\* Mutant: a process that was woken goes back to sleep without a look.
WaitBlindly(r) ==
  /\ Goes(r, "wait", "asleep")
  /\ UNCHANGED counting

\* wait_event_interruptible: on the queue, then the condition.
WaitEvent(r) ==
  /\ Goes(r, "wait", IF button_event_count # 0 THEN "copy" ELSE "asleep")
  /\ UNCHANGED counting

Signal(r) ==
  /\ Goes(r, "asleep", "copy")
  /\ UNCHANGED counting

\* copy_to_user: -EFAULT leaves the event, otherwise it is taken.
ReadCopy(r) ==
  /\ \/ Goes(r, "copy", "idle")
     \/ Goes(r, "copy", "take")
  /\ UNCHANGED counting

\* Signals let the count sink without limit; -MaxEvents bounds it.
ReadTake(r) ==
  /\ button_event_count > -MaxEvents
  /\ Goes(r, "take", "idle")
  /\ button_event_count' = button_event_count - 1
  /\ UNCHANGED <<events, handler>>

\* gpio_poll queues the process and reports readable when the count is positive;
\* poll sleeps while it does not.
gpio_poll(r) ==
  /\ button = "on"
  /\ \/ Goes(r, "idle", IF button_event_count > 0 THEN "idle" ELSE "polling")
     \/ Goes(r, "poll", IF button_event_count > 0 THEN "idle" ELSE "polling")
  /\ UNCHANGED counting

PollTimeout(r) ==
  /\ Goes(r, "polling", "idle")
  /\ UNCHANGED counting

ReaderStep(r) == WaitEvent(r) \/ ReadCopy(r) \/ ReadTake(r)

InputNext ==
  \/ \E p \in ButtonPins : ButtonRequest(p) \/ WriteButtonGpio(p)
  \/ ButtonDirection \/ ButtonIrq \/ CleanupIrq \/ CleanupLine
  \/ Interrupt \/ InterruptWakes
  \/ \E r \in Readers : \/ ReadTest(r) \/ ReaderStep(r) \/ Signal(r)
                        \/ gpio_poll(r) \/ PollTimeout(r)

\* An interrupt handler that has begun ends; a process that is not asleep runs.
InputFairness ==
  /\ WF_inputVars(InterruptWakes)
  /\ \A r \in Readers : WF_inputVars(ReaderStep(r))

-----------------------------------------------------------------------------
InputTypeOK ==
  /\ button_event_count \in (-MaxEvents)..MaxEvents
  /\ events \in 0..MaxEvents
  /\ handler \in {"idle", "wake"}
  /\ reader \in [Readers -> {"idle", "wait", "asleep", "copy", "take", "poll", "polling"}]
  /\ button_gpio \in ButtonPins
  /\ line \subseteq ButtonPins
  /\ irq \in ButtonPins \cup {NoIrq}
  /\ button \in {"off", "direction", "irq", "on", "free"}
  /\ moved \in BOOLEAN

\* An interrupt is requested only for a line that is the driver's, and a driver
\* without button holds neither, whichever call of init_button failed, as long as
\* nobody writes button_gpio.
ButtonReleased ==
  ~moved => /\ irq # NoIrq => irq \in line
            /\ button = "off" => irq = NoIrq /\ line = {}

\* No event is missed: a process that sleeps in read or in poll while an event is
\* counted is woken, although others take events, fail to copy them or are
\* interrupted between its test and its sleep.
SleeperWoken ==
  \A r \in Readers :
    (reader[r] \in {"asleep", "polling"} /\ button_event_count > 0)
      ~> reader[r] \notin {"asleep", "polling"}

-----------------------------------------------------------------------------
InputSpec == InputInit /\ [][InputNext]_inputVars /\ InputFairness

\* The inductive invariant of GpioProofs: what the extension holds at each point
\* of init_button and cleanup_button.  No more events are counted than happened.
InputIInv ==
  /\ InputTypeOK /\ button_event_count <= events
  /\ ~moved =>
       /\ line = IF button = "off" THEN {} ELSE {button_gpio}
       /\ irq = IF button = "on" THEN button_gpio ELSE NoIrq
=============================================================================

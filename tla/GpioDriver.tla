----------------------------- MODULE GpioDriver -----------------------------
(***************************************************************************)
(* The Raspberry Pi LED driver, lab5-1-raspberry-gpio-driver/src/          *)
(* gpio_led.c: a kernel module that is loaded, serves its device file, and *)
(* is unloaded, while other consumers request and free GPIO lines and an   *)
(* administrator may write its parameters in /sys/module.                  *)
(*                                                                         *)
(* A step is one call that another part of the system can observe: the     *)
(* device file can be opened from cdev_add on, and GPIO lines change hands *)
(* at any time.  The kernel is modelled from how the driver uses it: an    *)
(* open file keeps the module loaded, because fops.owner is THIS_MODULE,   *)
(* but not while init has yet to fail; gpio_request gives a free line to   *)
(* one consumer; gpio_free and gpio_set_value do not ask whose line it is. *)
(* A request may fail for reasons of its own.                              *)
(***************************************************************************)
EXTENDS Integers, FiniteSets

CONSTANTS
  Pins,        \* the valid GPIO lines
  ButtonPin,   \* GPIO_BUTTON_PIN
  PinParams,   \* values given to the parameter gpio_pin, invalid ones too
  MaxFiles     \* bound: open files

ASSUME GpioConstants ==
  /\ ButtonPin \in Pins
  /\ MaxFiles \in Nat

VARIABLES
  owner,      \* whose each line is: "none", "led", "button" or "other"
  level,      \* the output level of each line
  regs,       \* what the module has registered with the kernel
  gpio_pin, use_button,  \* the parameters
  pc,         \* where gpio_led_init or gpio_led_exit is, "unloaded" or "loaded"
  files,      \* open files
  written     \* history: somebody has written the parameters of the loaded module

vars == <<owner, level, regs, gpio_pin, use_button, pc, files, written>>
params == <<gpio_pin, use_button, written>>
lines == <<owner, level>>

Loading == {"region", "class", "device", "cdev", "request", "direction", "button",
            "button_direction"}
Unloading == {"exit_off", "exit_free", "exit_button", "exit_regs"}

Init ==
  /\ owner = [p \in Pins |-> "none"]
  /\ level = [p \in Pins |-> 0]
  /\ regs = {}
  /\ gpio_pin \in PinParams
  /\ use_button \in BOOLEAN
  /\ pc = "unloaded"
  /\ files = 0
  /\ written = FALSE

-----------------------------------------------------------------------------
\* The kernel's GPIO calls.

gpio_is_valid(p) == p \in Pins

\* gpio_free: the line is free afterwards, whoever had requested it.
gpio_free(p) ==
  owner' = [q \in Pins |-> IF q = p THEN "none" ELSE owner[q]]

gpio_set_value(p, v) == [q \in Pins |-> IF q = p THEN v ELSE level[q]]

-----------------------------------------------------------------------------
\* gpio_led_init.

\* insmod; files of an earlier init that failed are calls into freed memory,
\* after which nothing is known.
Insmod ==
  /\ pc = "unloaded" /\ files = 0
  /\ pc' = "region"
  /\ gpio_pin' \in PinParams
  /\ use_button' \in BOOLEAN
  /\ UNCHANGED <<regs, files, lines, written>>

\* alloc_chrdev_region, class_create, device_create, cdev_add: the next
\* registration, or an error return that takes back the ones before.
Register(at, next) ==
  /\ pc = at
  /\ \/ regs' = regs \cup {at} /\ pc' = next
     \/ regs' = {} /\ pc' = "unloaded"
  /\ UNCHANGED <<params, files, lines>>

\* The label error: all four registrations are undone.
Error == regs' = {} /\ pc' = "unloaded"

RequestLed ==
  /\ pc = "request"
  /\ \/ /\ gpio_is_valid(gpio_pin)
        /\ owner[gpio_pin] = "none"
        /\ owner' = [owner EXCEPT ![gpio_pin] = "led"]
        /\ pc' = "direction"
        /\ UNCHANGED regs
     \/ Error /\ UNCHANGED owner
  /\ UNCHANGED <<level, params, files>>

\* Mutant: the error return is missing when the direction cannot be set.
DirectionGoesOn ==
  /\ pc = "direction"
  /\ \/ /\ level' = gpio_set_value(gpio_pin, 0)
        /\ UNCHANGED owner
     \/ /\ gpio_free(gpio_pin)
        /\ UNCHANGED level
  /\ pc' = "button"
  /\ UNCHANGED <<regs, params, files>>

\* Mutant: the line is not freed when its direction cannot be set.
DirectionKeepsPin ==
  /\ pc = "direction"
  /\ \/ /\ level' = gpio_set_value(gpio_pin, 0)
        /\ pc' = "button"
        /\ UNCHANGED <<owner, regs>>
     \/ /\ Error
        /\ UNCHANGED <<owner, level>>
  /\ UNCHANGED <<params, files>>

\* gpio_direction_output sets the line to 0, or fails.
DirectionLed ==
  /\ pc = "direction"
  /\ \/ /\ level' = gpio_set_value(gpio_pin, 0)
        /\ pc' = "button"
        /\ UNCHANGED <<owner, regs>>
     \/ /\ gpio_free(gpio_pin)
        /\ Error
        /\ UNCHANGED level
  /\ UNCHANGED <<params, files>>

\* Failures with the button are warnings only.
RequestButton ==
  /\ pc = "button"
  /\ \/ /\ use_button
        /\ owner[ButtonPin] = "none"
        /\ owner' = [owner EXCEPT ![ButtonPin] = "button"]
        /\ pc' = "button_direction"
     \/ pc' = "loaded" /\ UNCHANGED owner
  /\ UNCHANGED <<level, regs, params, files>>

DirectionButton ==
  /\ pc = "button_direction"
  /\ \/ UNCHANGED owner
     \/ gpio_free(ButtonPin)
  /\ pc' = "loaded"
  /\ UNCHANGED <<level, regs, params, files>>

-----------------------------------------------------------------------------
\* gpio_led_exit.

\* rmmod is refused while a file is open.
Rmmod ==
  /\ pc = "loaded" /\ files = 0
  /\ pc' = "exit_off"
  /\ UNCHANGED <<regs, params, files, lines>>

ExitOff ==
  /\ pc = "exit_off"
  /\ level' = gpio_set_value(gpio_pin, 0)
  /\ pc' = "exit_free"
  /\ UNCHANGED <<owner, regs, params, files>>

ExitFree ==
  /\ pc = "exit_free"
  /\ gpio_free(gpio_pin)
  /\ pc' = "exit_button"
  /\ UNCHANGED <<level, regs, params, files>>

\* The button line is freed whether or not its request succeeded.
ExitButton ==
  /\ pc = "exit_button"
  /\ IF use_button THEN gpio_free(ButtonPin) ELSE UNCHANGED owner
  /\ pc' = "exit_regs"
  /\ UNCHANGED <<level, regs, params, files>>

ExitRegs ==
  /\ pc = "exit_regs"
  /\ regs' = {}
  /\ pc' = "unloaded"
  /\ UNCHANGED <<params, files, lines>>

-----------------------------------------------------------------------------
\* The device file, the parameters, and the other consumers.

\* Possible from cdev_add until rmmod has begun.
gpio_open ==
  /\ "cdev" \in regs /\ pc \notin Unloading
  /\ files < MaxFiles
  /\ files' = files + 1
  /\ UNCHANGED <<regs, params, pc, lines>>

gpio_release ==
  /\ files > 0 /\ pc # "unloaded"
  /\ files' = files - 1
  /\ UNCHANGED <<regs, params, pc, lines>>

\* '1' and '0'; anything else is -EINVAL.
gpio_write(c) ==
  /\ files > 0 /\ pc # "unloaded"
  /\ level' = gpio_set_value(gpio_pin, IF c = "1" THEN 1 ELSE 0)
  /\ UNCHANGED <<owner, regs, params, pc, files>>

\* module_param(..., 0644).
WriteParams ==
  /\ pc # "unloaded"
  /\ \/ gpio_pin' \in PinParams /\ UNCHANGED use_button
     \/ use_button' \in BOOLEAN /\ UNCHANGED gpio_pin
  /\ written' = TRUE
  /\ UNCHANGED <<regs, pc, files, lines>>

OtherRequests(p) ==
  /\ owner[p] = "none"
  /\ owner' = [owner EXCEPT ![p] = "other"]
  /\ UNCHANGED <<level, regs, params, pc, files>>

OtherFrees(p) ==
  /\ owner[p] = "other"
  /\ owner' = [owner EXCEPT ![p] = "none"]
  /\ UNCHANGED <<level, regs, params, pc, files>>

Next ==
  \/ Insmod
  \/ Register("region", "class") \/ Register("class", "device")
  \/ Register("device", "cdev") \/ Register("cdev", "request")
  \/ RequestLed \/ DirectionLed \/ RequestButton \/ DirectionButton
  \/ Rmmod \/ ExitOff \/ ExitFree \/ ExitButton \/ ExitRegs
  \/ gpio_open \/ gpio_release
  \/ \E c \in {"0", "1"} : gpio_write(c)
  \/ WriteParams
  \/ \E p \in Pins : OtherRequests(p) \/ OtherFrees(p)

Spec == Init /\ [][Next]_vars

-----------------------------------------------------------------------------
TypeOK ==
  /\ owner \in [Pins -> {"none", "led", "button", "other"}]
  /\ level \in [Pins -> {0, 1}]
  /\ regs \subseteq {"region", "class", "device", "cdev"}
  /\ gpio_pin \in PinParams
  /\ use_button \in BOOLEAN
  /\ pc \in {"unloaded", "loaded"} \cup Loading \cup Unloading
  /\ files \in 0..MaxFiles
  /\ written \in BOOLEAN

\* Wherever gpio_led_init fails, and after gpio_led_exit, nothing outlives the
\* module: no registration with the kernel, whatever is written to the
\* parameters, and no GPIO line, while nobody writes them.
NothingLeftBehind ==
  pc = "unloaded" =>
    /\ regs = {}
    /\ ~written => \A p \in Pins : owner[p] \notin {"led", "button"}

\* While nobody writes the parameters, the line that gpio_write drives and
\* gpio_led_exit frees is the driver's own from the end of gpio_led_init on,
\* whatever fails with the button and whatever other consumers request.
OwnsItsLine ==
  ~written /\ pc \in {"loaded", "exit_off", "exit_free"} => owner[gpio_pin] = "led"

-----------------------------------------------------------------------------
\* Where the two lines are the driver's; GpioProofs shows that this is inductive.

HoldsLed == {"direction", "button", "button_direction", "loaded", "exit_off", "exit_free"}
MayHoldButton == {"button_direction", "loaded", "exit_off", "exit_free", "exit_button"}

\* While nobody writes the parameters, the driver has the line gpio_pin exactly
\* from its request to its release, and no line but this and the button's.
LineOwners ==
  ~written =>
    /\ pc \in HoldsLed => gpio_pin \in Pins /\ owner[gpio_pin] = "led"
    /\ pc = "button_direction" => owner[ButtonPin] = "button"
    /\ \A p \in Pins :
         /\ owner[p] = "led" => p = gpio_pin /\ pc \in HoldsLed
         /\ owner[p] = "button" => p = ButtonPin /\ use_button /\ pc \in MayHoldButton

IInv == TypeOK /\ LineOwners /\ (pc = "unloaded" => regs = {})
=============================================================================

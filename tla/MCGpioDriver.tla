---------------------------- MODULE MCGpioDriver ----------------------------
(***************************************************************************)
(* Small instances of the LED driver and of its two extensions for TLC.    *)
(* The examples extend one driver separately, so one of the three is built *)
(* and the variables of the others rest at a fixed initial value.          *)
(***************************************************************************)
EXTENDS GpioDriver, GpioPwm, GpioInput

\* The LED line 17, the button line 27, which is also given as gpio_pin, and the
\* invalid line -1.
MCPinParams == {17, 27, -1}
MCButtonPins == {22, 27, -1}

VARIABLE build   \* which of the three is built

allVars == <<vars, pwmVars, inputVars, build>>

\* What the parameters of a driver that is not built are said to be.
Rests(b) ==
  /\ b # "base" => gpio_pin = 17 /\ ~use_button
  /\ b # "pwm" => pwm_duty = 50
  /\ b # "input" => button_gpio = 27

MCInit ==
  /\ Init /\ PwmInit /\ InputInit
  /\ build \in {"base", "pwm", "input"}
  /\ Rests(build)

MCNext ==
  \/ build = "base" /\ Next /\ UNCHANGED <<pwmVars, inputVars, build>>
  \/ build = "pwm" /\ PwmNext /\ UNCHANGED <<vars, inputVars, build>>
  \/ build = "input" /\ InputNext /\ UNCHANGED <<vars, pwmVars, build>>

MCSpec == MCInit /\ [][MCNext]_allVars /\ PwmFairness /\ InputFairness
=============================================================================

------------------------------- MODULE Button -------------------------------
(***************************************************************************)
(* The button of the display (display/display.c): an interrupt for each    *)
(* edge, and one timer that first waits for the contact to settle, then    *)
(* for the next press.  The number of presses in a row chooses a           *)
(* brightness.  The timer is delayed work: when it is due its callback is  *)
(* still to be run, and the interrupt may come in between.                 *)
(***************************************************************************)
EXTENDS Integers

CONSTANT MaxPresses   \* bound: presses in a row

ASSUME ButtonAssumption == MaxPresses \in Nat

VARIABLES
  interrupts,    \* GPIO interrupts are enabled
  hyst,          \* gb_button_hyst
  count,         \* gui_button_count
  buttonTimer,   \* delay gs_button_timer is armed with, 0 if it is not
  due,           \* it has expired and its callback is about to run
  brightness,    \* gui_brightness
  bouncing,      \* the contact has not settled
  newPress,      \* a press that interrupted and was not counted
  inRow,         \* presses since the last pause that was long enough
  late           \* one of them came between an expiry and its callback

buttonVars == <<interrupts, hyst, count, buttonTimer, due, brightness,
                bouncing, newPress, inRow, late>>

(* Before user_init enables the interrupts.                                *)
ButtonInit ==
  /\ interrupts = FALSE
  /\ hyst = FALSE
  /\ count = 0
  /\ buttonTimer = 0
  /\ due = FALSE
  /\ brightness = 128
  /\ bouncing = FALSE
  /\ newPress = FALSE
  /\ inRow = 0
  /\ late = FALSE

(* The power goes.                                                         *)
ButtonOff ==
  /\ interrupts' = FALSE
  /\ hyst' = FALSE
  /\ count' = 0
  /\ buttonTimer' = 0
  /\ due' = FALSE
  /\ brightness' = 128
  /\ bouncing' = FALSE
  /\ newPress' = FALSE
  /\ inRow' = 0
  /\ late' = FALSE

-----------------------------------------------------------------------------
(* gpio_isr.  os_timer_arm takes back no callback that is about to run.    *)

GpioIsr ==
  /\ interrupts' = FALSE
  /\ hyst' = TRUE
  /\ buttonTimer' = 150
  /\ UNCHANGED <<count, due, brightness>>

(* A press closes the contact; an edge that is disabled is dropped when    *)
(* button_timer clears the interrupt.                                      *)
Press ==
  /\ ~bouncing
  /\ interrupts
  /\ inRow < MaxPresses
  /\ bouncing' = TRUE
  /\ newPress' = TRUE
  /\ inRow' = inRow + 1
  /\ late' = (late \/ due)
  /\ GpioIsr

(* Another edge of the same press.                                         *)
Bounce ==
  /\ bouncing
  /\ interrupts
  /\ GpioIsr
  /\ UNCHANGED <<bouncing, newPress, inRow, late>>

(* The contact settles before either delay is over.                        *)
Settle ==
  /\ bouncing
  /\ bouncing' = FALSE
  /\ UNCHANGED <<interrupts, hyst, count, buttonTimer, due, brightness,
                 newPress, inRow, late>>

Expire ==
  /\ buttonTimer # 0
  /\ ~bouncing
  /\ ~due
  /\ due' = TRUE
  /\ buttonTimer' = 0
  /\ UNCHANGED <<interrupts, hyst, count, brightness, bouncing, newPress, inRow,
                 late>>

-----------------------------------------------------------------------------
(* The switch at the end of button_timer.                                  *)
BrightnessFor(n) ==
  CASE n = 1 -> 255
    [] n = 2 -> 128
    [] n = 3 -> 32
    [] n \in 4..9 -> 10
    [] OTHER -> 0

(* button_timer, after a press.                                            *)

CountPressStaysDeaf ==
  /\ hyst
  /\ hyst' = FALSE
  /\ count' = count + 1
  /\ brightness' = BrightnessFor(count')
  /\ buttonTimer' = 250
  /\ UNCHANGED interrupts
  /\ newPress' = FALSE
  /\ UNCHANGED <<inRow, late>>

CountPress ==
  /\ hyst
  /\ hyst' = FALSE
  /\ count' = count + 1
  /\ brightness' = BrightnessFor(count')
  /\ buttonTimer' = 250
  /\ interrupts' = TRUE
  /\ newPress' = FALSE
  /\ UNCHANGED <<inRow, late>>

(* button_timer, after a pause.                                            *)
EndRowKeepsCount ==
  /\ ~hyst
  /\ inRow' = 0
  /\ late' = FALSE
  /\ UNCHANGED <<hyst, count, brightness, buttonTimer, interrupts, newPress>>

EndRow ==
  /\ ~hyst
  /\ count' = 0
  /\ inRow' = 0
  /\ late' = FALSE
  /\ UNCHANGED <<hyst, brightness, buttonTimer, interrupts, newPress>>

ButtonTimer ==
  /\ due
  /\ due' = FALSE
  /\ CountPress \/ EndRow
  /\ UNCHANGED bouncing

(* Interrupts are enabled, or a callback is on its way that enables them.  *)
WakesUp == interrupts \/ (hyst /\ (buttonTimer # 0 \/ due))

-----------------------------------------------------------------------------
(* PROPERTIES                                                              *)

Counted == IF newPress THEN inRow - 1 ELSE inRow

(* No press is lost and each counts once, whatever the contact does before *)
(* it settles and whatever is saved or served meanwhile, although the      *)
(* interrupt and two delays share one timer.  Once a press came between an *)
(* expiry and its callback, which then takes the pause for the hysteresis, *)
(* some may count twice.                                                   *)
PressesCounted ==
  /\ count >= Counted
  /\ ~late => count = Counted
=============================================================================

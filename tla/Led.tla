-------------------------------- MODULE Led --------------------------------
(***************************************************************************)
(* The LED driver of the display (display/led.c): led_display says what to *)
(* show, one timer shows it and plays the animation.  The pattern is a     *)
(* word wider than the eight LEDs, and only its low byte is shifted out; a *)
(* word is modelled as the set of its bits that are 1.                     *)
(***************************************************************************)
EXTENDS Integers

CONSTANTS
  Width,       \* bits in g_ui_value; 32 in the code
  Patterns,    \* bound: patterns that led_display is called with
  MaxBright,   \* highest brightness; 255 in the code
  LowerBound   \* LED_PULSE_LOWER_BOUND; 25 in the code

Lamps == 0..7

ASSUME LedAssumption ==
  /\ Width \in Nat /\ Width >= 8
  /\ Patterns \subseteq SUBSET Lamps
  /\ MaxBright \in Nat \ {0}
  /\ LowerBound \in 0..MaxBright

VARIABLES
  value,       \* g_ui_value
  mode,        \* g_ui_flags
  brightness,  \* g_ui_brightness
  target,      \* g_ui_brightness_target
  pulseDown,   \* g_b_pulse_down
  armed,       \* g_spi_timer_t is armed
  shown,       \* the byte in the shift register
  duty         \* the brightness the PWM was last set to

ledVars == <<value, mode, brightness, target, pulseDown, armed, shown, duty>>

Modes == {"NONE", "FADE", "PULSE", "FLASH", "ROTATE_L", "ROTATE_R"}

LedTypeOK ==
  /\ value \subseteq 0..Width - 1
  /\ mode \in Modes
  /\ brightness \in 0..MaxBright
  /\ target \in 0..MaxBright
  /\ pulseDown \in BOOLEAN
  /\ armed \in BOOLEAN
  /\ shown \subseteq Lamps
  /\ duty \in 0..MaxBright

(* 0xAA, and led_init.  The shift register holds anything at power-on.     *)
LedInit ==
  /\ value = {1, 3, 5, 7}
  /\ mode = "NONE"
  /\ brightness = 0
  /\ target = MaxBright
  /\ pulseDown = TRUE
  /\ armed = TRUE
  /\ shown = {}
  /\ duty = 0

-----------------------------------------------------------------------------
LowByte == value \cap Lamps

ShiftLeft(word, n) == {i \in 0..Width - 1 : i - n \in word}
ShiftRight(word, n) == {i \in 0..Width - 1 : i + n \in word}

LedDisplayBrightNotArmed(pattern, newMode, newTarget) ==
  /\ IF newMode = "BRIGHT"
       THEN UNCHANGED <<value, pulseDown, mode, armed>>
       ELSE /\ value' = pattern
            /\ pulseDown' = (mode = "PULSE" => pulseDown)
            /\ mode' = newMode
            /\ armed' = TRUE
  /\ target' = newTarget
  /\ UNCHANGED <<brightness, shown, duty>>

(* led_display.                                                            *)
LedDisplay(pattern, newMode, newTarget) ==
  /\ IF newMode = "BRIGHT"
       THEN UNCHANGED <<value, pulseDown, mode>>
       ELSE /\ value' = pattern
            /\ pulseDown' = (mode = "PULSE" => pulseDown)
            /\ mode' = newMode
  /\ target' = newTarget
  /\ armed' = TRUE
  /\ UNCHANGED <<brightness, shown, duty>>

(* spi_timer, by mode.                                                     *)
None ==
  /\ mode = "NONE"
  /\ brightness' = target
  /\ armed' = FALSE
  /\ UNCHANGED <<value, pulseDown>>

Fade ==
  /\ mode = "FADE"
  /\ \/ /\ brightness < target
        /\ brightness' = brightness + 1
        /\ armed' = TRUE
     \/ /\ brightness > target
        /\ brightness' = brightness - 1
        /\ armed' = TRUE
     \/ /\ brightness = target
        /\ armed' = FALSE
        /\ UNCHANGED brightness
  /\ UNCHANGED <<value, pulseDown>>

Pulse ==
  /\ mode = "PULSE"
  /\ \/ /\ pulseDown
        /\ IF brightness > LowerBound
             THEN brightness' = brightness - 1 /\ UNCHANGED pulseDown
             ELSE pulseDown' = FALSE /\ UNCHANGED brightness
     \/ /\ ~pulseDown
        /\ IF brightness < target
             THEN brightness' = brightness + 1 /\ UNCHANGED pulseDown
             ELSE pulseDown' = TRUE /\ UNCHANGED brightness
  /\ armed' = TRUE
  /\ UNCHANGED value

Flash ==
  /\ mode = "FLASH"
  /\ brightness' = IF brightness = target THEN 0 ELSE target
  /\ armed' = TRUE
  /\ UNCHANGED <<value, pulseDown>>

RotateLDropsLastLamp ==
  /\ mode = "ROTATE_L"
  /\ brightness' = target
  /\ value' = ShiftLeft(value, 1) \cup ShiftRight(value, 8)
  /\ armed' = TRUE
  /\ UNCHANGED pulseDown

RotateL ==
  /\ mode = "ROTATE_L"
  /\ brightness' = target
  /\ value' = ShiftLeft(value, 1) \cup ShiftRight(value, 7)
  /\ armed' = TRUE
  /\ UNCHANGED pulseDown

RotateR ==
  /\ mode = "ROTATE_R"
  /\ brightness' = target
  /\ value' = ShiftLeft(value, 7) \cup ShiftRight(value, 1)
  /\ armed' = TRUE
  /\ UNCHANGED pulseDown

(* spi_timer.  SPIMasterSendData fails only on arguments that are never    *)
(* passed here.                                                            *)
SpiTimer ==
  /\ armed
  /\ shown' = LowByte
  /\ None \/ Fade \/ Pulse \/ Flash \/ RotateL \/ RotateR
  /\ duty' = brightness'
  /\ UNCHANGED <<mode, target>>

Display ==
  \E pattern \in Patterns, newMode \in Modes \cup {"BRIGHT"},
     newTarget \in 0..MaxBright : LedDisplay(pattern, newMode, newTarget)

LedNext == Display \/ SpiTimer

LedSpec == LedInit /\ [][LedNext]_ledVars

(* An armed timer expires.                                                 *)
LedFairSpec == LedSpec /\ WF_ledVars(SpiTimer)

-----------------------------------------------------------------------------
(* PROPERTIES                                                              *)

(* The bits above the low byte repeat the byte below them, as far as they  *)
(* are set at all.  The rotations, which shift a whole word by 1 and by 7, *)
(* need it.                                                                *)
Periodic == \A i \in value : i >= 8 => i - 8 \in value

LedInv == LedTypeOK /\ Periodic

(* On a ring of eight LEDs, the next to the left and to the right.         *)
LeftOf(i) == IF i = 7 THEN 0 ELSE i + 1
RightOf(i) == IF i = 0 THEN 7 ELSE i - 1

(* The two rotations, done on a word of 32 bits that is never masked, are  *)
(* rotations of a ring of eight LEDs, for ever: no bit that was shifted    *)
(* out of the byte comes back to light a LED.                              *)
RotatesRing ==
  [][SpiTimer =>
       /\ mode = "ROTATE_L" => LowByte' = {i \in Lamps : RightOf(i) \in LowByte}
       /\ mode = "ROTATE_R" => LowByte' = {i \in Lamps : LeftOf(i) \in LowByte}
    ]_ledVars

Undisturbed == <>[][~Display]_ledVars

(* What was last asked for without an animation is shown in the end, also  *)
(* when it interrupts an animation or only sets the brightness.            *)
LastRequestShown ==
  Undisturbed =>
    <>[](mode \in {"NONE", "FADE"} => shown = LowByte /\ duty = target)
=============================================================================

-------------------------------- MODULE Fade --------------------------------
(***************************************************************************)
(* One fader, as Fade FSMs and the five lights of a ChristmasTree use it:  *)
(* a brightness that runs between 0 and FULL and back (constant level).    *)
(*                                                                         *)
(* A fader is a record.  rate is the pair of the FSM's period and delay in *)
(* ms; the pin and the luminance curve belong to the FSM that owns the     *)
(* fader.  age and peaked are not in the code: the time since the          *)
(* brightness was last 0, and whether it has been FULL since.              *)
(***************************************************************************)
EXTENDS Integers

CONSTANTS
    FULL,      \* the highest brightness: 255
    LongMod,   \* the modulus of the uint32_t product: 2^32
    IntMod,    \* the modulus of an int of the board: 2^16
    Rates      \* pairs of period and delay that faders are created with

\* m_brightnessStep.  (Slip: the whole period is spent on the way up.)
BrightnessStep_Slow(rate) == ((FULL * rate[2]) % LongMod) \div rate[1]
BrightnessStep(rate) == ((FULL * rate[2] * 2) % LongMod) \div rate[1]

\* The constructor and Validate() take any period and delay.  The hosts of the
\* repository keep to these: the period is not 0, the product does not wrap,
\* and the step is positive and leaves m_brightness inside an int.
RateIsSane(rate) ==
    /\ rate \in (Nat \ {0}) \X Nat
    /\ FULL * rate[2] * 2 < LongMod
    /\ BrightnessStep(rate) > 0
    /\ 2 * (BrightnessStep(rate) + FULL) < IntMod

ASSUME FadeAssumption ==
    /\ {FULL, LongMod, IntMod} \subseteq Nat \ {0}
    /\ \A rate \in Rates : RateIsSane(rate)

Faders ==
    [rate : Rates, dir : {"UP", "DOWN"}, brightness : 0 .. FULL, enabled : BOOLEAN,
     age : Nat, peaked : BOOLEAN]

NewFader(rate) ==
    [rate |-> rate, dir |-> "UP", brightness |-> 0, enabled |-> TRUE,
     age |-> 0, peaked |-> FALSE]

\* Both curves map 0 to 0 and everything else to at least 1.
Shines(fader) == fader.brightness # 0

\* Enable(), and SetDirection() with it.
Frozen(fader) == [fader EXCEPT !.enabled = FALSE]
Enabled(fader) == [fader EXCEPT !.enabled = TRUE]
Aimed(fader, dir) == [fader EXCEPT !.enabled = TRUE, !.dir = dir]

\* The brightness reaches an end, where the direction reverses, or not yet.
Raised(fader) ==
    LET b == fader.brightness + BrightnessStep(fader.rate)
    IN  IF b >= FULL
        THEN [fader EXCEPT !.brightness = FULL, !.dir = "DOWN", !.peaked = TRUE]
        ELSE [fader EXCEPT !.brightness = b]

Lowered(fader) ==
    LET b == fader.brightness - BrightnessStep(fader.rate)
    IN  IF b <= 0
        THEN [fader EXCEPT !.brightness = 0, !.dir = "UP"]
        ELSE [fader EXCEPT !.brightness = b]

\* Ghosts: what time has passed; a new cycle begins with the step that leaves 0.
Aged(fader) ==
    IF fader.brightness = 0 THEN [fader EXCEPT !.age = fader.rate[2], !.peaked = FALSE]
    ELSE [fader EXCEPT !.age = @ + fader.rate[2]]

\* StepAwayFromTheVTable(): nothing while the fader is disabled.
Faded(fader) ==
    IF ~fader.enabled THEN fader
    ELSE IF fader.dir = "UP" THEN Raised(Aged(fader))
    ELSE Lowered(Aged(fader))

\* "The brightness goes from 0 to 255 to 0 in one period" (Fade.h:60): what the
\* truncated step makes of it.
WholeCycle(fader) ==
    /\ fader.peaked
    /\ fader.rate[1] <= fader.age
    /\ fader.age < 2 * (fader.rate[1] + fader.rate[2])
=============================================================================

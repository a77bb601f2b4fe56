---------------------------- MODULE EncoderClock -----------------------------
(***************************************************************************)
(* When MecanumMaster::Spin() samples the encoder: every Interval          *)
(* microseconds, on a clock that wraps.  Whether a wrap lies between two   *)
(* readings is kept in flags that swap the comparison with the deadline.   *)
(* microsWrapped is assigned anew on every pass, so it is no state.        *)
(***************************************************************************)
EXTENDS Naturals

CONSTANTS
    ULONG_MAX,    \* the last value of micros() + 1 is 0: 2^32 - 1
    Resolution,   \* of micros(): 4 microseconds
    Interval,     \* 500 microseconds
    MaxGap        \* assumption on speed: clock ticks between two passes of the loop

ASSUME ClockAssumption ==
    /\ {ULONG_MAX, Resolution, Interval, MaxGap} \subseteq Nat
    /\ Resolution > 0
    /\ (ULONG_MAX + 1) % Resolution = 0 /\ Interval % Resolution = 0
    /\ Interval + Resolution * MaxGap < ULONG_MAX

VARIABLES
    micros,           \* micros()
    lastMicrosValue,  \* micros() when the encoder was looked at last
    encoderDelay,     \* when to sample it next
    encoderWrapped,   \* encoderDelay lies behind a wrap
    gap               \* not in the code: ticks since the last pass

clock == <<micros, lastMicrosValue, encoderDelay, encoderWrapped, gap>>

Period == Interval \div Resolution
Wrap(t) == t % (ULONG_MAX + 1)

ClockInit ==
    /\ micros = 0
    /\ lastMicrosValue = 0 /\ encoderDelay = 0 /\ encoderWrapped = FALSE
    /\ gap = 0

\* The clock advances, at most MaxGap times between two passes.
Tick ==
    /\ gap < MaxGap
    /\ micros' = Wrap(micros + Resolution)
    /\ gap' = gap + 1
    /\ UNCHANGED <<lastMicrosValue, encoderDelay, encoderWrapped>>

\* Whether to sample now: the deadline has passed or, when just one of reading
\* and deadline has wrapped, has not.  (Slip: wraps are not looked at.)
UpdateDue_NoSwap == encoderDelay <= micros
UpdateDue ==
    LET microsWrapped == micros < lastMicrosValue
    IN  IF microsWrapped = encoderWrapped THEN encoderDelay <= micros
                                          ELSE ~ (encoderDelay <= micros)

\* A pass with an enabled encoder; a sample is taken if UpdateDue.
Poll ==
    /\ lastMicrosValue' = micros
    /\ IF UpdateDue
       THEN /\ encoderWrapped' = (micros >= ULONG_MAX - Interval)
            /\ encoderDelay' = Wrap(micros + Interval)
       ELSE UNCHANGED <<encoderWrapped, encoderDelay>>
    /\ gap' = 0
    /\ UNCHANGED micros

\* A pass without one.
Skip ==
    /\ gap' = 0
    /\ UNCHANGED <<micros, lastMicrosValue, encoderDelay, encoderWrapped>>

ClockTypeOK ==
    /\ {micros, lastMicrosValue, encoderDelay} \subseteq 0 .. ULONG_MAX
    /\ encoderWrapped \in BOOLEAN
    /\ gap \in 0 .. MaxGap
=============================================================================

-------------------------------- MODULE GPIO ---------------------------------
(***************************************************************************)
(* A pin of the BeagleBoard as the files of sysfs show it, and the object  *)
(* that caches its direction and edge and keeps a descriptor of its value  *)
(* open, for reading an input or writing an output.  Any system call may   *)
(* fail.                                                                   *)
(*                                                                         *)
(* Pulse() and PWM() take time and are modelled step by step; the other    *)
(* functions are one step.  Poll() is modelled where it is used (Upstart   *)
(* and IMU).  Mirror() is a GetValue() and a SetValue() or SetDirection(). *)
(***************************************************************************)
EXTENDS Naturals

CONSTANTS
    DURATION,   \* of a pulse, in ticks of the clock
    PERIOD,     \* of PWM with a duty cycle of DURATION / PERIOD
    TIME,       \* of PWM
    Counts,     \* the numbers of pulses asked for
    MaxElapsed  \* bound: how long a call takes

ASSUME GPIOAssumption ==
    /\ {DURATION, PERIOD, TIME, MaxElapsed} \subseteq Nat \ {0}
    /\ DURATION < PERIOD
    /\ Counts \subseteq Nat \ {0}

VARIABLES
    exported, direction, edge, value,  \* the pin: sysfs
    m_gpio_fd,      \* "r", "w", or "none" while INVALID_SOCKET
    m_dir, m_edge,
    outcome,        \* of the last call: "true", "false" or "exception"
    opened,         \* the client's: Open() succeeded and Close() was not called
    pc,             \* where in Pulse() or PWM() the client is, or "idle"
    flips,          \* count in Pulse(): edges still to come
    sleeps,         \* in Pulse(): wake-ups by signals still tolerated
    next,           \* when the next edge of Pulse() is
    pwmNext, pwmSleeps,  \* the same in PWM()
    job,            \* the call: "pulse", or the duty cycle of PWM()
    elapsed,        \* the time since it began
    rises, asked, gaveUp  \* not in the code: rising edges made and asked for;
                          \* the last Pulse() was interrupted too often

sysfs == <<exported, direction, edge, value>>
object == <<m_gpio_fd, m_dir, m_edge>>
pulse == <<pc, flips, sleeps, next, pwmNext, pwmSleeps, job, elapsed, rises, asked, gaveUp>>
vars == <<sysfs, object, outcome, opened, pulse>>

Mode(dir) == IF dir = "OUT" THEN "w" ELSE "r"

\* Reopen(): the descriptor is closed, and opened again if that succeeds.
Reopened(dir) == m_gpio_fd' \in {"none", Mode(dir)}
-----------------------------------------------------------------------------
(* Open and close *)

\* A pin that is not exported and cannot be.
OpenUnexported ==
    /\ ~exported
    /\ outcome' = "false"
    /\ UNCHANGED <<sysfs, object, opened, pulse>>

\* The cache is read from sysfs, as far as that succeeds.
OpenExported ==
    /\ exported' = TRUE
    /\ \/ UNCHANGED <<object, opened>> /\ outcome' = "false"
       \/ /\ m_dir' = direction
          /\ \/ UNCHANGED <<m_gpio_fd, m_edge, opened>> /\ outcome' = "false"
             \/ /\ m_edge' = edge
                /\ Reopened(direction)
                /\ opened' = (opened \/ m_gpio_fd' # "none")
                /\ outcome' = IF m_gpio_fd' # "none" THEN "true" ELSE "false"
    /\ UNCHANGED <<direction, edge, value, pulse>>

Open ==
    /\ m_gpio_fd = "none"
    /\ OpenUnexported \/ OpenExported

Close ==
    /\ m_gpio_fd' = "none"
    /\ opened' = FALSE
    /\ outcome' = "true"
    /\ UNCHANGED <<sysfs, m_dir, m_edge, pulse>>
-----------------------------------------------------------------------------
(* Direction, edge and value *)

\* The descriptor is closed, the direction is written, recorded, and the
\* descriptor opened again.  (A slip: it is recorded before it is written.)
SetDirection_Early(dir, initial) ==
    /\ m_dir # dir
    /\ m_dir' = dir
    /\ \/ m_gpio_fd' = "none" /\ UNCHANGED sysfs /\ outcome' = "exception"
       \/ /\ direction' = dir
          /\ value' = IF dir = "OUT" THEN initial ELSE value
          /\ Reopened(dir)
          /\ outcome' = IF m_gpio_fd' = "none" THEN "exception" ELSE "true"
          /\ UNCHANGED <<exported, edge>>
    /\ UNCHANGED <<m_edge, opened, pulse>>
SetDirection(dir, initial) ==
    /\ m_dir # dir
    /\ \/ /\ m_gpio_fd' = "none"
          /\ outcome' = "exception"
          /\ UNCHANGED <<sysfs, m_dir>>
       \/ /\ direction' = dir
          /\ value' = IF dir = "OUT" THEN initial ELSE value
          /\ m_dir' = dir
          /\ Reopened(dir)
          /\ outcome' = IF m_gpio_fd' = "none" THEN "exception" ELSE "true"
          /\ UNCHANGED <<exported, edge>>
    /\ UNCHANGED <<m_edge, opened, pulse>>

SetEdge(e) ==
    /\ m_edge # e
    /\ \/ outcome' = "exception" /\ UNCHANGED <<edge, m_edge>>
       \/ edge' = e /\ m_edge' = e /\ outcome' = "true"
    /\ UNCHANGED <<exported, direction, value, m_gpio_fd, m_dir, opened, pulse>>

\* It has the direction, or the edge, already.
SetAgain ==
    /\ outcome' = "true"
    /\ UNCHANGED <<sysfs, object, opened, pulse>>

\* An input is read and the descriptor rewound; if the read fails it is opened
\* again.  For an output it is opened for reading and then again for writing.
GetValue ==
    /\ \/ outcome' = "exception" /\ Reopened(m_dir)
       \/ /\ m_dir = "IN" /\ m_gpio_fd # "none"
          /\ outcome' \in {"true", "exception"}
          /\ UNCHANGED m_gpio_fd
       \/ /\ m_dir = "OUT"
          /\ Reopened(m_dir)
          /\ outcome' = IF m_gpio_fd' = "none" THEN "exception" ELSE "true"
    /\ UNCHANGED <<sysfs, m_dir, m_edge, opened, pulse>>

\* write() and lseek() succeed, or one of them fails and SetValue() throws.
Writes(v) == m_gpio_fd = "w" /\ value' = v
Throws(v) == Writes(v) \/ UNCHANGED value

\* An input is not written.
SetValue(v) ==
    /\ \/ m_dir = "IN" /\ outcome' = "true" /\ UNCHANGED value
       \/ m_dir = "OUT" /\ outcome' = "true" /\ Writes(v)
       \/ m_dir = "OUT" /\ outcome' = "exception" /\ Throws(v)
    /\ UNCHANGED <<exported, direction, edge, object, opened, pulse>>
-----------------------------------------------------------------------------
(* Pulse() *)

\* A step that calls SetValue(v) on an output: it goes on at "after", or throws.
SetsValue(v, after) ==
    \/ /\ pc' = after
       /\ Writes(v)
       /\ UNCHANGED outcome
    \/ /\ pc' = "idle"
       /\ outcome' = "exception"
       /\ Throws(v)

Environment == <<exported, direction, edge, object, opened>>

PulseBegin(count) ==
    /\ pc' = "flip"
    /\ job' = "pulse"
    /\ flips' = 2 * count - 1
    /\ sleeps' = 3
    /\ elapsed' = 0 /\ next' = 0
    /\ rises' = 0 /\ asked' = count /\ gaveUp' = FALSE
    /\ UNCHANGED <<Environment, value, outcome, pwmNext, pwmSleeps>>

\* On odd counts the pin is raised, on even counts lowered.
Flip ==
    /\ pc = "flip"
    /\ SetsValue(flips % 2, "sleep")
    /\ next' = next + DURATION
    /\ rises' = rises + (flips % 2)
    /\ UNCHANGED <<Environment, flips, sleeps, pwmNext, pwmSleeps, job, elapsed, asked, gaveUp>>

\* Where the call returns to: PWM(), or the client.
Return(result) ==
    IF job = "pulse" THEN pc' = "idle" /\ outcome' = result
                     ELSE pc' = "pwm_check" /\ UNCHANGED outcome

Awake ==
    /\ pc = "sleep"
    /\ elapsed >= next
    /\ flips' = flips - 1
    /\ pc' = IF flips' = 0 THEN "low" ELSE "flip"
    /\ UNCHANGED <<Environment, value, outcome, sleeps, next, pwmNext, pwmSleeps,
                   job, elapsed, rises, asked, gaveUp>>

\* A signal ends nanosleep(); the third time Pulse() gives up.  (A slip: it
\* takes the time to have come.)
Interrupted_Hasty ==
    /\ pc = "sleep"
    /\ elapsed < next
    /\ flips' = flips - 1
    /\ pc' = IF flips' = 0 THEN "low" ELSE "flip"
    /\ UNCHANGED <<Environment, value, outcome, sleeps, next, pwmNext, pwmSleeps,
                   job, elapsed, rises, asked, gaveUp>>
Interrupted ==
    /\ pc = "sleep"
    /\ elapsed < next
    /\ sleeps' = sleeps - 1
    /\ IF sleeps' = 0 THEN Return("false") /\ gaveUp' = TRUE
                      ELSE UNCHANGED <<pc, outcome, gaveUp>>
    /\ UNCHANGED <<Environment, value, flips, next, pwmNext, pwmSleeps,
                   job, elapsed, rises, asked>>

\* The final low.  (A slip: the last flip is taken for it.)
Low_None ==
    /\ pc = "low"
    /\ Return("true")
    /\ gaveUp' = FALSE
    /\ UNCHANGED <<Environment, value, flips, sleeps, next, pwmNext, pwmSleeps,
                   job, elapsed, rises, asked>>
Low ==
    /\ pc = "low"
    /\ \/ /\ Writes(0)
          /\ Return("true")
          /\ gaveUp' = FALSE
       \/ /\ Throws(0)
          /\ pc' = "idle" /\ outcome' = "exception"
          /\ UNCHANGED gaveUp
    /\ UNCHANGED <<Environment, flips, sleeps, next, pwmNext, pwmSleeps,
                   job, elapsed, rises, asked>>
-----------------------------------------------------------------------------
(* PWM() *)

\* DURATION out of PERIOD: a Pulse() in every period.
PWMBegin ==
    /\ pc' = "flip"
    /\ job' = "pwm"
    /\ flips' = 1
    /\ sleeps' = 3 /\ pwmSleeps' = 3
    /\ elapsed' = 0 /\ next' = 0 /\ pwmNext' = 0
    /\ rises' = 0 /\ asked' = 0 /\ gaveUp' = FALSE
    /\ UNCHANGED <<Environment, value, outcome>>

PWMCheck ==
    /\ pc = "pwm_check"
    /\ IF elapsed >= TIME
       THEN pc' = "idle" /\ outcome' = "true" /\ UNCHANGED pwmNext
       ELSE pc' = "pwm_sleep" /\ pwmNext' = pwmNext + PERIOD /\ UNCHANGED outcome
    /\ UNCHANGED <<Environment, value, flips, sleeps, next, pwmSleeps,
                   job, elapsed, rises, asked, gaveUp>>

PWMAwake ==
    /\ pc = "pwm_sleep"
    /\ elapsed >= pwmNext
    /\ pc' = "flip"
    /\ flips' = 1 /\ sleeps' = 3 /\ next' = elapsed
    /\ UNCHANGED <<Environment, value, outcome, pwmNext, pwmSleeps,
                   job, elapsed, rises, asked, gaveUp>>

PWMInterrupted ==
    /\ pc = "pwm_sleep"
    /\ elapsed < pwmNext
    /\ pwmSleeps' = pwmSleeps - 1
    /\ IF pwmSleeps' = 0 THEN pc' = "idle" /\ outcome' = "false"
                         ELSE UNCHANGED <<pc, outcome>>
    /\ UNCHANGED <<Environment, value, flips, sleeps, next, pwmNext,
                   job, elapsed, rises, asked, gaveUp>>

\* A duty cycle of 0, of 1, or so small that its duration is 0 ("tiny").
SteadyBegin(duty) ==
    /\ SetsValue(IF duty = "zero" THEN 0 ELSE 1, "steady")
    /\ job' = duty
    /\ pwmSleeps' = 3
    /\ elapsed' = 0 /\ rises' = 0 /\ asked' = 0 /\ gaveUp' = FALSE
    /\ UNCHANGED <<Environment, flips, sleeps, next, pwmNext>>

SteadyInterrupted ==
    /\ pc = "steady"
    /\ elapsed < TIME
    /\ pwmSleeps > 1
    /\ pwmSleeps' = pwmSleeps - 1
    /\ UNCHANGED <<Environment, value, outcome, pc, flips, sleeps, next, pwmNext,
                   job, elapsed, rises, asked, gaveUp>>

\* The time has come, or the third signal.
SteadyEnd ==
    /\ pc = "steady"
    /\ elapsed >= TIME \/ pwmSleeps = 1
    /\ gaveUp' = (elapsed < TIME)
    /\ pc' = "idle"
    /\ IF job = "full"
       THEN \/ Writes(0) /\ outcome' = "true"
            \/ Throws(0) /\ outcome' = "exception"
       ELSE UNCHANGED value /\ outcome' = "true"
    /\ UNCHANGED <<Environment, flips, sleeps, next, pwmNext, pwmSleeps,
                   job, elapsed, rises, asked>>
-----------------------------------------------------------------------------
Levels == {0, 1}
Directions == {"IN", "OUT"}
Edges == {"NONE", "BOTH"}

\* A client that uses the pin once Open() has succeeded, until Close().  After
\* an exception it may go on.
Call ==
    /\ pc = "idle"
    /\ \/ Open
       \/ /\ opened
          /\ \/ Close \/ SetAgain \/ GetValue
             \/ \E dir \in Directions, v \in Levels : SetDirection(dir, v)
             \/ \E e \in Edges : SetEdge(e)
             \/ \E v \in Levels : SetValue(v)
             \/ /\ m_dir = "OUT"
                /\ \/ \E count \in Counts : PulseBegin(count)
                   \/ PWMBegin
                   \/ \E duty \in {"zero", "tiny", "full"} : SteadyBegin(duty)

PulseStep == Flip \/ Awake \/ Interrupted \/ Low
PWMStep == PWMCheck \/ PWMAwake \/ PWMInterrupted \/ SteadyInterrupted \/ SteadyEnd

Tick ==
    /\ pc # "idle"
    /\ elapsed < MaxElapsed
    /\ elapsed' = elapsed + 1
    /\ UNCHANGED <<Environment, value, outcome, pc, flips, sleeps, next, pwmNext,
                   pwmSleeps, job, rises, asked, gaveUp>>

Init ==
    /\ exported \in BOOLEAN /\ direction \in Directions
    /\ edge \in Edges /\ value \in Levels
    /\ m_gpio_fd = "none" /\ m_dir = "IN" /\ m_edge = "NONE"
    /\ outcome = "false" /\ opened = FALSE
    /\ pc = "idle" /\ flips = 0 /\ sleeps = 0 /\ next = 0
    /\ pwmNext = 0 /\ pwmSleeps = 0
    /\ job = "none" /\ elapsed = 0
    /\ rises = 0 /\ asked = 0 /\ gaveUp = FALSE

Next == Call \/ PulseStep \/ PWMStep \/ Tick

Spec == Init /\ [][Next]_vars
-----------------------------------------------------------------------------
(* Properties *)

\* The cache is what sysfs says, and the descriptor can do what m_dir allows,
\* whichever calls have failed on the way: "The GPIO class maintains this
\* consistency" (GPIO.h:247) and "Sync m_dir" (GPIO.h:256).
CacheIsTrue ==
    opened =>
        /\ m_dir = direction /\ m_edge = edge
        /\ m_gpio_fd \in {"none", Mode(m_dir)}

Returned == pc # "idle" /\ pc' = "idle" /\ outcome' = "true"

\* "As a post-condition, the value is set to 0" (GPIO.h:205, 218), when Pulse() or
\* PWM() returns true.  Two cases are left out, in which PWM() leaves the pin
\* high: its last Pulse() gave up, and a duty cycle so small that it is steady.
EndsLow == [][Returned /\ ~gaveUp' /\ job # "tiny" => value' = 0]_vars

\* When Pulse() returns true it has raised the pin count times and taken as
\* long as the pulses and the lows between them (GPIO.h:203); PWM() "blocks at
\* least for this time" (GPIO.h:223), but for a steady one that gave up.
TakesItsTime ==
    [][Returned =>
        IF job = "pulse" THEN rises = asked /\ elapsed >= (2 * asked - 1) * DURATION
        ELSE elapsed >= TIME \/ gaveUp']_vars
=============================================================================

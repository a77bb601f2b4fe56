------------------------------- MODULE Upstart -------------------------------
(***************************************************************************)
(* The program that runs on the BeagleBoard from boot on.  A thread for    *)
(* each button waits in GPIO::Poll() for it to change: green switches a    *)
(* line to the Arduino, red loads a Fade FSM while it is pressed and shuts *)
(* the board down when it is held.                                         *)
(*                                                                         *)
(* A pressed button reads 0.  The kernel reports an edge to poll() until   *)
(* the pin has been read, the first time without any.                      *)
(***************************************************************************)
EXTENDS Naturals

CONSTANTS
    BUTTON_TIMEOUT,  \* in ticks of the clock: 5 seconds
    MaxChanges       \* bound: how often each button is pressed or released

ASSUME UpstartAssumption == BUTTON_TIMEOUT \in Nat \ {0} /\ MaxChanges \in Nat

Buttons == {"green", "red"}
Threads == Buttons \cup {"main"}

VARIABLES
    m_bRunning,
    pc,             \* where each thread is
    initial_value,  \* of Poll(), in each button's thread
    waited,         \* how long Poll() has waited, up to BUTTON_TIMEOUT
    level, event,   \* the pin of each button, and whether poll() reports an edge
    enabled,        \* state of the green thread
    bridge4,        \* the line its button switches
    fades,          \* Fade FSMs on the Arduino
    shutdown,       \* the shutdown command has been run
    crashed,        \* an exception left a thread: std::terminate()
    changes,        \* how often each button has changed
    fresh           \* not in the code: pressed since its thread last answered a press

outputs == <<enabled, bridge4, fades, shutdown>>
buttons == <<level, event, changes>>
vars == <<m_bRunning, pc, initial_value, waited, outputs, crashed, buttons, fresh>>

Goto(t, label) == pc' = [pc EXCEPT ![t] = label]

\* DestroyFSM(): the Arduino erases the first Fade it finds.
Destroyed == IF fades > 0 THEN fades - 1 ELSE 0
-----------------------------------------------------------------------------
(* GPIO::Poll(), with an edge of BOTH and verify *)

\* The value before; reading it takes back an edge already reported.  (A slip:
\* it is not read.)
PollBegin_Unread(t) ==
    /\ pc[t] = "poll"
    /\ initial_value' = [initial_value EXCEPT ![t] = 2]
    /\ waited' = [waited EXCEPT ![t] = 0]
    /\ Goto(t, "wait")
    /\ UNCHANGED <<m_bRunning, outputs, crashed, buttons, fresh>>
PollBegin(t) ==
    /\ pc[t] = "poll"
    /\ initial_value' = [initial_value EXCEPT ![t] = level[t]]
    /\ event' = [event EXCEPT ![t] = FALSE]
    /\ waited' = [waited EXCEPT ![t] = 0]
    /\ Goto(t, "wait")
    /\ UNCHANGED <<m_bRunning, outputs, crashed, level, changes, fresh>>

\* An edge is reported.  It is a false alarm if the value is what it was.
PollWakes(t) ==
    /\ pc[t] = "wait"
    /\ event[t]
    /\ event' = [event EXCEPT ![t] = FALSE]
    /\ IF level[t] = initial_value[t] THEN UNCHANGED pc
       ELSE Goto(t, IF level[t] = 0 THEN "pressed" ELSE "released")
    /\ UNCHANGED <<m_bRunning, initial_value, waited, outputs, crashed, level, changes, fresh>>

PollTimesOut(t) ==
    /\ pc[t] = "wait"
    /\ waited[t] = BUTTON_TIMEOUT
    /\ Goto(t, "timed out")
    /\ UNCHANGED <<m_bRunning, initial_value, waited, outputs, crashed, buttons, fresh>>

\* A GPIO call in the loop throws: in Poll(), in GetValue(), or in SetValue().
Throws(t) ==
    /\ \/ pc[t] \in {"poll", "wait"}
       \/ t = "green" /\ pc[t] = "pressed"
       \/ t = "red" /\ pc[t] = "timed out"
    /\ m_bRunning' = FALSE
    /\ Goto(t, "check")
    /\ UNCHANGED <<initial_value, waited, outputs, crashed, buttons, fresh>>
-----------------------------------------------------------------------------
(* The threads *)

\* Outside the loops nothing catches what a GPIO call throws.
Uncaught(t) ==
    /\ \/ t = "main" /\ pc[t] \in {"start", "last"}
       \/ t \in Buttons /\ pc[t] = "setup"
       \/ t = "green" /\ pc[t] = "exit"
    /\ crashed' = TRUE
    /\ UNCHANGED <<m_bRunning, pc, initial_value, waited, outputs, buttons, fresh>>

\* The pins are set up, and a Fade left from before is removed.  The line is
\* pulled low, unless it was an output already: then SetDirection() returns.
SetUp(t) ==
    /\ pc[t] = "setup"
    /\ Goto(t, "check")
    /\ IF t = "green" THEN bridge4' \in {0, bridge4} /\ UNCHANGED fades
                      ELSE fades' = Destroyed /\ UNCHANGED bridge4
    /\ event' = [event EXCEPT ![t] = TRUE]
    /\ UNCHANGED <<m_bRunning, initial_value, waited, enabled, shutdown, crashed, level, changes, fresh>>

Check(t) ==
    /\ pc[t] = "check"
    /\ Goto(t, IF m_bRunning THEN "poll" ELSE "exit")
    /\ UNCHANGED <<m_bRunning, initial_value, waited, outputs, crashed, buttons, fresh>>

Pressed(t) ==
    /\ pc[t] = "pressed"
    /\ IF t = "green"
       THEN /\ enabled' = ~enabled
            /\ bridge4' = IF enabled' THEN 1 ELSE 0
            /\ UNCHANGED fades
       ELSE fades' = fades + 1 /\ UNCHANGED <<enabled, bridge4>>
    /\ fresh' = [fresh EXCEPT ![t] = FALSE]
    /\ Goto(t, "check")
    /\ UNCHANGED <<m_bRunning, initial_value, waited, shutdown, crashed, buttons>>

Released(t) ==
    /\ pc[t] = "released"
    /\ fades' = IF t = "red" THEN Destroyed ELSE fades
    /\ Goto(t, "check")
    /\ UNCHANGED <<m_bRunning, initial_value, waited, enabled, bridge4, shutdown, crashed, buttons, fresh>>

GreenTimedOut ==
    /\ pc["green"] = "timed out"
    /\ Goto("green", "check")
    /\ UNCHANGED <<m_bRunning, initial_value, waited, outputs, crashed, buttons, fresh>>

\* The button is read once more, and if it is down the board is shut down.
\* (Slips: only if the press was seen; the other threads are not told.)
RedTimedOut_Seen ==
    /\ pc["red"] = "timed out"
    /\ event' = [event EXCEPT !["red"] = FALSE]
    /\ IF level["red"] = 0 /\ fades > 0
       THEN m_bRunning' = FALSE /\ fades' = Destroyed /\ shutdown' = TRUE
       ELSE UNCHANGED <<m_bRunning, fades, shutdown>>
    /\ Goto("red", "check")
    /\ UNCHANGED <<initial_value, waited, enabled, bridge4, crashed, level, changes, fresh>>
RedTimedOut_Silent ==
    /\ pc["red"] = "timed out"
    /\ event' = [event EXCEPT !["red"] = FALSE]
    /\ IF level["red"] = 0
       THEN fades' = Destroyed /\ shutdown' = TRUE
       ELSE UNCHANGED <<fades, shutdown>>
    /\ Goto("red", "check")
    /\ UNCHANGED <<m_bRunning, initial_value, waited, enabled, bridge4, crashed, level, changes, fresh>>
RedTimedOut ==
    /\ pc["red"] = "timed out"
    /\ event' = [event EXCEPT !["red"] = FALSE]
    /\ IF level["red"] = 0
       THEN m_bRunning' = FALSE /\ fades' = Destroyed /\ shutdown' = TRUE
       ELSE UNCHANGED <<m_bRunning, fades, shutdown>>
    /\ Goto("red", "check")
    /\ UNCHANGED <<initial_value, waited, enabled, bridge4, crashed, level, changes, fresh>>

Exit(t) ==
    /\ pc[t] = "exit"
    /\ IF t = "green" THEN bridge4' = 1 /\ UNCHANGED fades
                      ELSE fades' = Destroyed /\ UNCHANGED bridge4
    /\ Goto(t, "done")
    /\ UNCHANGED <<m_bRunning, initial_value, waited, enabled, shutdown, crashed, buttons, fresh>>

Thread(t) ==
    \/ SetUp(t) \/ Check(t) \/ PollBegin(t) \/ PollWakes(t) \/ PollTimesOut(t)
    \/ Pressed(t) \/ Released(t) \/ Exit(t)
    \/ t = "green" /\ GreenTimedOut
    \/ t = "red" /\ RedTimedOut

\* Main() starts the threads ...
Start ==
    /\ pc["main"] = "start"
    /\ m_bRunning' = TRUE
    /\ pc' = [t \in Threads |-> IF t = "main" THEN "join" ELSE "setup"]
    /\ UNCHANGED <<initial_value, waited, outputs, crashed, buttons, fresh>>

\* ... joins them, and sets a last line.
Join ==
    /\ pc["main"] = "join"
    /\ \A t \in Buttons : pc[t] = "done"
    /\ Goto("main", "last")
    /\ UNCHANGED <<m_bRunning, initial_value, waited, outputs, crashed, buttons, fresh>>

Last ==
    /\ pc["main"] = "last"
    /\ Goto("main", "done")
    /\ UNCHANGED <<m_bRunning, initial_value, waited, outputs, crashed, buttons, fresh>>

Main == Start \/ Join \/ Last
-----------------------------------------------------------------------------
(* The buttons, and time *)

Change(t) ==
    /\ changes[t] < MaxChanges
    /\ changes' = [changes EXCEPT ![t] = @ + 1]
    /\ level' = [level EXCEPT ![t] = 1 - @]
    /\ event' = [event EXCEPT ![t] = TRUE]
    /\ fresh' = [fresh EXCEPT ![t] = @ \/ level[t] = 1]
    /\ UNCHANGED <<m_bRunning, pc, initial_value, waited, outputs, crashed>>

Tick ==
    /\ waited' = [t \in Buttons |-> IF pc[t] = "wait" /\ waited[t] < BUTTON_TIMEOUT
                                    THEN waited[t] + 1 ELSE waited[t]]
    /\ UNCHANGED <<m_bRunning, pc, initial_value, outputs, crashed, buttons, fresh>>

\* A button may be held at boot, and the line and a Fade be left from before.
Init ==
    /\ m_bRunning = FALSE
    /\ pc = [t \in Threads |-> IF t = "main" THEN "start" ELSE "none"]
    /\ initial_value = [t \in Buttons |-> 0] /\ waited = [t \in Buttons |-> 0]
    /\ level \in [Buttons -> {0, 1}]
    /\ event = [t \in Buttons |-> FALSE] /\ changes = [t \in Buttons |-> 0]
    /\ enabled = FALSE /\ bridge4 \in {0, 1} /\ fades \in {0, 1}
    /\ shutdown = FALSE
    /\ crashed = FALSE
    /\ fresh = [t \in Buttons |-> FALSE]

Next ==
    /\ ~crashed
    /\ \/ Main
       \/ \E t \in Buttons : Thread(t) \/ Throws(t) \/ Change(t)
       \/ \E t \in Threads : Uncaught(t)
       \/ Tick

Spec == Init /\ [][Next]_vars

\* Threads run and time passes; nothing has to fail and nobody has to press.
FairSpec ==
    /\ Spec
    /\ WF_vars(~crashed /\ Main) /\ WF_vars(~crashed /\ Tick)
    /\ \A t \in Buttons : WF_vars(~crashed /\ Thread(t))
-----------------------------------------------------------------------------
(* Properties *)

\* "verify: Guard against spurious wakeups" (GPIO.h:179): a thread answers a
\* press only if the button has been pressed since the last one it answered,
\* not an edge reported late, or for a button held down at boot.
AnswersArePresses == \A t \in Buttons : pc[t] = "pressed" => fresh[t]

\* However a thread's loop ends, by shutting down or by an exception, the other
\* one ends too, and Main() returns ("Run until all threads have completed",
\* Upstart.cpp:86).
StopsTogether ==
    shutdown \/ (\E t \in Buttons : pc[t] = "done") ~> pc["main"] = "done" \/ crashed

\* A red button that is held shuts the board down, also if its press fell
\* between two calls of Poll() or before the first (Upstart.cpp:197-207).
HeldShutsDown ==
    <>[](level["red"] = 0) => <>(shutdown \/ crashed \/ pc["red"] = "exit")
=============================================================================

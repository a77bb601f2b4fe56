------------------------- MODULE FiniteStateMachine -------------------------
(***************************************************************************)
(* The finite state machines an Arduino program is built from: what their  *)
(* constructors, Step() and Message() do, as far as the manager that       *)
(* schedules them (MecanumMaster) can tell.                                *)
(*                                                                         *)
(* An FSM is identified by its fingerprint, the parameter array whose      *)
(* first byte is the FSM's ID (Describe()).  Five IDs stand for the eleven *)
(* classes; they differ in what the manager sees of them:                  *)
(*   FSM_BLINK             a fixed delay, no Message() (also Fade,         *)
(*                         ChristmasTree, BatteryMonitor, Mimic,           *)
(*                         ServoSweep)                                     *)
(*   FSM_DIGITALPUBLISHER  a fixed delay, Message() asks for a Step() when *)
(*                         the pin matches (also AnalogPublisher)          *)
(*   FSM_TOGGLE            dormant until Message() flips it                *)
(*   FSM_MOTORCONTROLLER   dormant until Message(), then a timeout         *)
(*   FSM_SENTRY            owns the Encoder the manager points to          *)
(* Fades, servo angles, readings and pin levels are left out.              *)
(***************************************************************************)
EXTENDS Naturals

CONSTANTS
    Pins,         \* the pins parameters may name
    Addr,         \* heap addresses a Sentry may be allocated at
    NULL,         \* the null pointer; also "no FSM" and "no pin"
    BlinkDelay,   \* delay of the FSMs with a fixed one (ms)
    SentryDelay,  \* delay Sentry::Step() returns (50, 1000 or a day in the code)
    TIMEOUT,      \* MotorController's timeout (1000 ms in the code)
    FOREVER       \* ULONG_MAX / 2

ASSUME DelayAssumption ==
    /\ BlinkDelay \in Nat
    /\ SentryDelay \in Nat
    /\ TIMEOUT \in Nat
    /\ FOREVER \in Nat

PinIDs == {"FSM_BLINK", "FSM_DIGITALPUBLISHER", "FSM_TOGGLE"}
SoleIDs == {"FSM_MOTORCONTROLLER", "FSM_SENTRY"}   \* no parameter but the ID

\* The parameter arrays that pass the class's Validate().
Fingerprints == [id : PinIDs, pin : Pins] \cup [id : SoleIDs, pin : {NULL}]

\* An array a host may send: a fingerprint, or one of the wrong length or with
\* a value out of range ("bad"), which NewFromArray() turns into NULL.
Params == Fingerprints \cup [id : PinIDs \cup SoleIDs, pin : {"bad"}]

\* An FSM object.  on: Toggle's and Blink's m_enabled, and whether the last
\* speeds MotorController wrote were not all zero; messaged: m_bMessaged.
\* due is not in the code: the time the object's creation or its last Step()
\* asked to be stepped at, never truncated to 32 bits.
Objects ==
    [fp : Fingerprints, addr : Addr \cup {NULL},
     on : BOOLEAN, messaged : BOOLEAN, due : Nat]

ASSUME NullAssumption == NULL \notin Pins \cup Addr /\ NULL \notin Objects

\* The object a constructor leaves, created at time t; only a Sentry's address
\* is observed (through GetEncoder()), the others carry NULL.
New(fp, addr, t) ==
    [fp |-> fp, addr |-> addr, on |-> FALSE, messaged |-> FALSE, due |-> t]

\* NewFromArray(): the objects it may return, {NULL} when the parameters do
\* not pass Validate().  free is the set of addresses the allocator may use.
NewFromArray(par, free, t) ==
    IF par \notin Fingerprints THEN {NULL}
    ELSE IF par.id = "FSM_SENTRY" THEN {New(par, a, t) : a \in free}
    ELSE {New(par, NULL, t)}

\* MotorController::Step(): when it was messaged since its last Step(), it only
\* sets the timeout; else it has timed out, stops the motors and goes dormant.
MotorControllerDelay(f) == IF f.messaged THEN TIMEOUT ELSE FOREVER
MotorControllerOn(f) == f.on /\ f.messaged

\* Toggle::Step() writes m_enabled to its pin and goes dormant.
ToggleDelay == FOREVER

\* Blink::Step() changes the level of its pin.
BlinkOn(f) == ~f.on

\* Step(): the delay it returns, and the object after a Step() at time t.
StepDelay(f) ==
    CASE f.fp.id = "FSM_TOGGLE" -> ToggleDelay
      [] f.fp.id = "FSM_MOTORCONTROLLER" -> MotorControllerDelay(f)
      [] f.fp.id = "FSM_SENTRY" -> SentryDelay
      [] OTHER -> BlinkDelay

Stepped(f, t) ==
    [f EXCEPT !.messaged = FALSE,
              !.on = CASE f.fp.id = "FSM_BLINK" -> BlinkOn(f)
                       [] f.fp.id = "FSM_MOTORCONTROLLER" -> MotorControllerOn(f)
                       [] OTHER -> f.on,
              !.due = t + StepDelay(f)]

\* The messages a host may address to FSMs: Toggle's commands 0, 1 and 2, a
\* publisher's query, and MotorController's speeds, not all zero or all zero.
FsmMsgs ==
    [dst : {"FSM_TOGGLE"}, op : {"off", "on", "flip"}, pin : Pins]
        \cup [dst : {"FSM_DIGITALPUBLISHER"}, op : {"query"}, pin : Pins]
        \cup [dst : {"FSM_MOTORCONTROLLER"}, op : {"drive", "halt"}, pin : {NULL}]

\* Message() returns true, asking for a Step() at once, when the message is of
\* the right length and, for an FSM with a pin, names that pin.
Wakes(f, m) ==
    /\ f.fp.id = m.dst
    /\ f.fp.pin = m.pin

\* Toggle::Message(): commands 0 and 1, any other flips m_enabled.
ToggleMessage(f, m) ==
    [f EXCEPT !.on = CASE m.op = "off" -> FALSE
                       [] m.op = "on" -> TRUE
                       [] OTHER -> ~f.on]

\* MotorController::Message(): the speeds are written, m_bMessaged is set.
MotorControllerMessage(f, m) == [f EXCEPT !.on = (m.op = "drive"), !.messaged = TRUE]

\* Message(): the object it leaves when it returns true.
Messaged(f, m) ==
    CASE f.fp.id = "FSM_TOGGLE" -> ToggleMessage(f, m)
      [] f.fp.id = "FSM_MOTORCONTROLLER" -> MotorControllerMessage(f, m)
      [] OTHER -> f
=============================================================================

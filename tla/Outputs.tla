------------------------------- MODULE Outputs -------------------------------
(***************************************************************************)
(* The board seen from its pins: the FSM objects that are loaded, what     *)
(* their constructors, destructors, Step() and Message() write to the      *)
(* LEDs and the motors, and pins that several of them share.               *)
(*                                                                         *)
(* MecanumMaster is about when an FSM is stepped; here a Step() may come   *)
(* at any time, as it may behind an Erase().  A level is "lit" or not: a   *)
(* PWM pin is lit when what was written to it last is not 0.               *)
(***************************************************************************)
EXTENDS ChristmasTree, Sequences, FiniteSets

CONSTANTS
    Pins,     \* the pins of the LEDs
    NULL,     \* no pin, no rate
    Speeds,   \* int16 speeds a host may send to the motors
    Loadable  \* fingerprints of the FSMs that are ever loaded

\* LED_BATTERY_FULL is an alias of LED_BATTERY_HIGH (ArduinoAddressBook.h:37).
LED_BATTERY_FULL == "LED_BATTERY_HIGH"
BatteryPin == <<"LED_BATTERY_EMPTY", "LED_BATTERY_LOW", "LED_BATTERY_MEDIUM", "LED_BATTERY_HIGH">>
BatteryPins == {BatteryPin[j] : j \in 1 .. 4}

ASSUME PinAssumption == TreePins \cup BatteryPins \subseteq Pins
ASSUME SpeedAssumption == Speeds \subseteq -32767 .. 32767

PinIDs == {"FSM_BLINK", "FSM_TOGGLE", "FSM_MIMIC"}
SoleIDs == {"FSM_CHRISTMASTREE", "FSM_BATTERYMONITOR", "FSM_MOTORCONTROLLER", "FSM_SENTRY"}

\* What Describe() sends.  The pin of a Mimic is its destination.
Fingerprints ==
    [id : {"FSM_FADE"}, pin : Pins, rate : Rates]
        \cup [id : PinIDs, pin : Pins, rate : {NULL}]
        \cup [id : SoleIDs, pin : {NULL}, rate : {NULL}]

ASSUME LoadAssumption == Loadable \subseteq Fingerprints

VARIABLES
    loaded,    \* the FSM objects, in the order of the array
    lit,       \* the level of each LED
    driving,   \* a motor's PWM is not 0
    enable,    \* the static variable of MotorController::Message()
    bridge     \* the level of BEAGLEBOARD_BRIDGE1, an input

board == <<loaded, lit, driving, enable, bridge>>

\* An object.  on: m_enabled of Blink and Toggle.  level: m_currentLevel of
\* BatteryMonitor.  armed is not in the code: the last Step() of a
\* MotorController asked to be stepped again after TIMEOUT, not FOREVER.
Objects ==
    [fp : {f \in Loadable : f.id = "FSM_FADE"}, fader : Faders]
        \cup [fp : {f \in Loadable : f.id = "FSM_CHRISTMASTREE"}, tree : Trees]
        \cup [fp : {f \in Loadable : f.id = "FSM_BATTERYMONITOR"}, level : 0 .. 4]
        \cup [fp : {f \in Loadable : f.id = "FSM_MOTORCONTROLLER"}, armed : BOOLEAN]
        \cup [fp : {f \in Loadable : f.id \in PinIDs \cup {"FSM_SENTRY"}}, on : BOOLEAN]

New(fp) ==
    CASE fp.id = "FSM_FADE" -> [fp |-> fp, fader |-> NewFader(fp.rate)]
      [] fp.id = "FSM_CHRISTMASTREE" -> [fp |-> fp, tree |-> NewTree]
      [] fp.id = "FSM_BATTERYMONITOR" -> [fp |-> fp, level |-> 0]
      [] fp.id = "FSM_MOTORCONTROLLER" -> [fp |-> fp, armed |-> FALSE]
      [] OTHER -> [fp |-> fp, on |-> FALSE]

\* The pins the constructor and the destructor pull low.  Mimic and
\* MotorController have no destructor and leave their LED as it is.
LowPins(fp) ==
    CASE fp.id \in {"FSM_FADE", "FSM_BLINK", "FSM_TOGGLE"} -> {fp.pin}
      [] fp.id = "FSM_CHRISTMASTREE" -> TreePins
      [] fp.id = "FSM_BATTERYMONITOR" -> BatteryPins
      [] OTHER -> {}

\* analogWrite() and digitalWrite(): w is a function from the pins written.
Drive(w) == lit' = [p \in Pins |-> IF p \in DOMAIN w THEN w[p] ELSE lit[p]]
AllLow(fp) == [p \in LowPins(fp) |-> FALSE]
-----------------------------------------------------------------------------
(* Creating and destroying *)

\* NewFromArray() and PushBack(): the constructor of a MotorController stops
\* the motors.
Create(fp) ==
    /\ loaded' = Append(loaded, New(fp))
    /\ Drive(AllLow(fp))
    /\ driving' = (driving /\ fp.id # "FSM_MOTORCONTROLLER")
    /\ UNCHANGED <<enable, bridge>>

FirstOf(fp, k) ==
    /\ k \in DOMAIN loaded /\ loaded[k].fp = fp
    /\ \A j \in 1 .. k - 1 : loaded[j].fp # fp

\* GetIndex() and Erase(): the first FSM described by fp, if there is one.
\* (Slip: the destructor leaves the pins alone.)
Removed(k) == [j \in 1 .. Len(loaded) - 1 |-> IF j < k THEN loaded[j] ELSE loaded[j + 1]]
Destroy_Lit(fp) ==
    /\ \/ \E k \in DOMAIN loaded : FirstOf(fp, k) /\ loaded' = Removed(k)
       \/ (\A k \in DOMAIN loaded : loaded[k].fp # fp) /\ UNCHANGED loaded
    /\ UNCHANGED <<lit, driving, enable, bridge>>
Destroy(fp) ==
    /\ \/ /\ \E k \in DOMAIN loaded : FirstOf(fp, k) /\ loaded' = Removed(k)
          /\ Drive(AllLow(fp))
       \/ /\ \A k \in DOMAIN loaded : loaded[k].fp # fp
          /\ UNCHANGED <<loaded, lit>>
    /\ UNCHANGED <<driving, enable, bridge>>
-----------------------------------------------------------------------------
(* Step() *)

Is(k, id) == k \in DOMAIN loaded /\ loaded[k].fp.id = id

StepFade(k) ==
    LET fader == Faded(loaded[k].fader)
    IN  /\ Is(k, "FSM_FADE")
        /\ loaded' = [loaded EXCEPT ![k].fader = fader]
        /\ Drive([p \in {loaded[k].fp.pin} |-> Shines(fader)])
        /\ UNCHANGED <<driving, enable, bridge>>

StepTree(k) ==
    LET tree == loaded[k].tree
        next == TreeStepped(tree)
        Wrote(p) == \E n \in Written(tree) : TreePin(n) = p /\ Shines(next.fader[n])
    IN  /\ Is(k, "FSM_CHRISTMASTREE")
        /\ loaded' = [loaded EXCEPT ![k].tree = next]
        /\ Drive([p \in {TreePin(n) : n \in Written(tree)} |-> Wrote(p)])
        /\ UNCHANGED <<driving, enable, bridge>>

StepBlink(k) ==
    /\ Is(k, "FSM_BLINK")
    /\ loaded' = [loaded EXCEPT ![k].on = ~@]
    /\ Drive([p \in {loaded[k].fp.pin} |-> ~loaded[k].on])
    /\ UNCHANGED <<driving, enable, bridge>>

StepToggle(k) ==
    /\ Is(k, "FSM_TOGGLE")
    /\ Drive([p \in {loaded[k].fp.pin} |-> loaded[k].on])
    /\ UNCHANGED <<loaded, driving, enable, bridge>>

\* One more LED, or all of them off behind the last.
StepBattery(k) ==
    LET level == (loaded[k].level + 1) % 5
    IN  /\ Is(k, "FSM_BATTERYMONITOR")
        /\ loaded' = [loaded EXCEPT ![k].level = level]
        /\ Drive(IF level = 0 THEN AllLow(loaded[k].fp)
                 ELSE [p \in {BatteryPin[level]} |-> TRUE])
        /\ UNCHANGED <<driving, enable, bridge>>

StepMimic(k) ==
    /\ Is(k, "FSM_MIMIC")
    /\ Drive([p \in {loaded[k].fp.pin} |-> bridge])
    /\ UNCHANGED <<loaded, driving, enable, bridge>>

\* The timeout: nothing came since the last Step(), the motors stop.  (Slip:
\* they are left as they are.)
TimeOut_Forgets(k) ==
    /\ Is(k, "FSM_MOTORCONTROLLER")
    /\ loaded' = [loaded EXCEPT ![k].armed = FALSE]
    /\ UNCHANGED <<lit, driving, enable, bridge>>
TimeOut(k) ==
    /\ Is(k, "FSM_MOTORCONTROLLER")
    /\ loaded' = [loaded EXCEPT ![k].armed = FALSE]
    /\ driving' = FALSE
    /\ UNCHANGED <<lit, enable, bridge>>

StepFsm ==
    \E k \in DOMAIN loaded :
        \/ StepFade(k) \/ StepTree(k) \/ StepBlink(k) \/ StepToggle(k)
        \/ StepBattery(k) \/ StepMimic(k) \/ TimeOut(k)
-----------------------------------------------------------------------------
(* Message(), and the Step() that SerialCallback() adds to it *)

\* Toggles on the pin change, one after the other, and write their level.
Commanded(o, op) == CASE op = "off" -> FALSE [] op = "on" -> TRUE [] OTHER -> ~o.on

CommandToggles(pin, op) ==
    LET Woken == {k \in DOMAIN loaded : Is(k, "FSM_TOGGLE") /\ loaded[k].fp.pin = pin}
        Last(k) == k \in Woken /\ \A j \in Woken : j <= k
    IN  /\ loaded' = [k \in DOMAIN loaded |->
                        IF k \in Woken
                        THEN [loaded[k] EXCEPT !.on = Commanded(loaded[k], op)]
                        ELSE loaded[k]]
        /\ Drive([p \in {q \in {pin} : Woken # {}} |-> \E k \in Woken : Last(k) /\ loaded'[k].on])
        /\ UNCHANGED <<driving, enable, bridge>>

\* The uint8_t pwm takes the low byte of the speed's absolute value.
Pwm(speed) == (IF speed < 0 THEN -speed ELSE speed) % 256

\* Every MotorController writes the speeds and, for debugging, an LED that
\* changes with each message; its Step() then only asks for TIMEOUT.
CommandMotors(speed) ==
    LET Woken == {k \in DOMAIN loaded : Is(k, "FSM_MOTORCONTROLLER")}
    IN  /\ loaded' = [k \in DOMAIN loaded |->
                        IF k \in Woken THEN [loaded[k] EXCEPT !.armed = TRUE] ELSE loaded[k]]
        /\ driving' = (IF Woken = {} THEN driving ELSE Pwm(speed) # 0)
        /\ enable' = (IF Cardinality(Woken) % 2 = 0 THEN enable ELSE ~enable)
        /\ Drive([p \in {q \in {LED_BATTERY_FULL} : Woken # {}} |-> ~enable'])
        /\ UNCHANGED bridge

Commands ==
    [id : {"FSM_TOGGLE"}, pin : Pins, op : {"off", "on", "flip"}]
        \cup [id : {"FSM_MOTORCONTROLLER"}, speed : Speeds]

Command(m) ==
    IF m.id = "FSM_TOGGLE" THEN CommandToggles(m.pin, m.op) ELSE CommandMotors(m.speed)
-----------------------------------------------------------------------------
(* What the pins promise *)

BoardTypeOK ==
    /\ loaded \in Seq(Objects)
    /\ lit \in [Pins -> BOOLEAN]
    /\ {driving, enable, bridge} \subseteq BOOLEAN

\* Pins that FSMs without a destructor write: MotorController's debugging LED
\* and what Mimics copy to.
UntidyPins == {LED_BATTERY_FULL} \cup {fp.pin : fp \in {f \in Loadable : f.id = "FSM_MIMIC"}}

=============================================================================

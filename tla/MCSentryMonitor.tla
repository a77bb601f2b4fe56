--------------------------- MODULE MCSentryMonitor ---------------------------
(* A small instance of SentryMonitor and HostSession for TLC. *)
EXTENDS SentryMonitor

MCPins == TreePins \cup BatteryPins \cup {"LED_STATUS_GREEN"}

Sole(id) == [id |-> id, pin |-> NULL, rate |-> NULL]
OnPin(id, pin) == [id |-> id, pin |-> pin, rate |-> NULL]

\* The tree's period and delay, and a Fade whose steps do not divide FULL.
MCTreeRate == <<1200, 50>>
FadeRate == <<1000, 250>>
MCRates == {MCTreeRate, FadeRate}

MCBoot == <<Sole("FSM_CHRISTMASTREE"), OnPin("FSM_MIMIC", "LED_BATTERY_HIGH")>>

\* A Fade on the tree's emergency light, as Upstart has it, motors, and a pin
\* for as many Toggles as the host likes.
MCHostFsms ==
    {[id |-> "FSM_FADE", pin |-> "LED_EMERGENCY", rate |-> FadeRate],
     Sole("FSM_MOTORCONTROLLER"), OnPin("FSM_TOGGLE", "LED_STATUS_GREEN")}
MCLeft == <<Sole("FSM_BATTERYMONITOR"), OnPin("FSM_BLINK", "LED_STATUS_GREEN")>>
MCLoadable == MCHostFsms \cup {MCBoot[1], MCBoot[2], MCLeft[1], MCLeft[2], SentryFp}

\* 256 is a speed whose low byte is 0.
MCSpeeds == {100, -256}
MCCommands ==
    {[id |-> "FSM_TOGGLE", pin |-> "LED_STATUS_GREEN", op |-> "flip"]}
        \cup [id : {"FSM_MOTORCONTROLLER"}, speed : MCSpeeds]
=============================================================================

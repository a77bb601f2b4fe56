--------------------------- MODULE MCMecanumMaster ---------------------------
(* Small instances of MecanumMaster for TLC. *)
EXTENDS MecanumMaster

CONSTANTS p1, a1, a2, a3

MCAddr == {a1, a2, a3}
MCDescLength == [id \in PinIDs \cup SoleIDs |-> IF id \in SoleIDs THEN 1 ELSE 2]

Fp(id) == [id |-> id, pin |-> IF id \in PinIDs THEN p1 ELSE NULL]
Invalid(id) == [id |-> id, pin |-> "bad"]
CreateMsg(par) == [dst |-> "FSM_MASTER", op |-> "CREATE", par |-> par]
DestroyMsg(par) == [dst |-> "FSM_MASTER", op |-> "DESTROY", par |-> par]
ListMsg == [dst |-> "FSM_MASTER", op |-> "LIST", par |-> NULL]
UnknownMsg == [dst |-> "FSM_MASTER", op |-> "unknown", par |-> NULL]

BootBlink == <<Fp("FSM_BLINK")>>

\* What a host that loads and unloads FSMs sends.
ObjectMsgs ==
    {CreateMsg(Fp(id)) : id \in {"FSM_TOGGLE", "FSM_SENTRY"}}
        \cup {DestroyMsg(Fp(id)) : id \in {"FSM_TOGGLE", "FSM_SENTRY", "FSM_BLINK"}}
        \cup {CreateMsg(Invalid("FSM_TOGGLE")), DestroyMsg(Invalid("FSM_SENTRY"))}
        \cup {ListMsg, UnknownMsg}

\* What a host that drives the robot sends.
DriveMsgs ==
    {CreateMsg(Fp(id)) : id \in {"FSM_TOGGLE", "FSM_MOTORCONTROLLER", "FSM_BLINK"}}
        \cup {DestroyMsg(Fp("FSM_TOGGLE"))}
        \cup {m \in FsmMsgs : m.op \in {"drive", "halt", "flip"}}
=============================================================================

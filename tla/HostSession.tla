----------------------------- MODULE HostSession -----------------------------
(***************************************************************************)
(* A program on the BeagleBoard that loads, commands and clears FSMs, with *)
(* the calls of AVRController and as its tests do, and the board at the    *)
(* other end of the line.                                                  *)
(*                                                                         *)
(* AVRController and SerialFraming are about the threads and the bytes;    *)
(* here messages in either direction arrive whole and in order, after any  *)
(* time.  A message for which nobody waits is dropped, and a Query() that  *)
(* has timed out is answered late or never.                                *)
(***************************************************************************)
EXTENDS Outputs

CONSTANTS
    BootFsms,     \* what the board loads by itself: the tree and a Mimic
    HostFsms,     \* the fingerprints this host creates and destroys
    HostCommands, \* the commands it sends
    HostLimit,    \* assumption: the FSMs it keeps loaded (a list of them fits)
    RxCap,        \* bound: messages on their way to the board
    MaxSends      \* bound: messages sent, but for those of ClearFSMs()

ASSUME SessionAssumption ==
    /\ BootFsms \in Seq(Loadable)
    /\ HostFsms \subseteq Loadable
    /\ HostCommands \subseteq Commands
    /\ {HostLimit, RxCap, MaxSends} \subseteq Nat

VARIABLES
    pc,        \* where the host is: idle, waiting for a list, or destroying
    fsmv,      \* ClearFSMs(): the FSMs it has been told of and not destroyed yet
    rx,        \* messages to the board
    line,      \* answers to LIST on their way to the host
    sends,     \* how many messages were sent, of those MaxSends counts
    queries,   \* how many lists were asked for
    current    \* not in the code: the last list that came answers the last query,
               \* and no FSM was created or destroyed but those it names

host == <<pc, fsmv, sends, queries, current>>
session == <<loaded, lit, driving, enable, bridge, pc, fsmv, rx, line, sends, queries, current>>

Requests ==
    [kind : {"CREATE", "DESTROY"}, fp : Loadable]
        \cup [kind : {"LIST"}, query : Nat]
        \cup [kind : {"COMMAND"}, msg : Commands]

Fps(objects) == [k \in DOMAIN objects |-> objects[k].fp]
-----------------------------------------------------------------------------
(* The host *)

Send(m) == Len(rx) < RxCap /\ rx' = Append(rx, m)

\* CreateFSM() and DestroyFSM().
CallCreate ==
    /\ pc = "idle" /\ sends < MaxSends
    /\ Len(loaded) + Len(rx) < HostLimit
    /\ \E fp \in HostFsms : Send([kind |-> "CREATE", fp |-> fp])
    /\ sends' = sends + 1
    /\ current' = FALSE
    /\ UNCHANGED <<board, pc, fsmv, line, queries>>

CallDestroy ==
    /\ pc = "idle" /\ sends < MaxSends
    /\ \E fp \in HostFsms : Send([kind |-> "DESTROY", fp |-> fp])
    /\ sends' = sends + 1
    /\ current' = FALSE
    /\ UNCHANGED <<board, pc, fsmv, line, queries>>

\* Send() with a message for an FSM.
CallCommand ==
    /\ pc = "idle" /\ sends < MaxSends
    /\ \E m \in HostCommands : Send([kind |-> "COMMAND", msg |-> m])
    /\ sends' = sends + 1
    /\ UNCHANGED <<board, pc, fsmv, line, queries, current>>

\* The program raises or lowers the GPIO that is wired to the board.
SetBridge ==
    /\ pc = "idle" /\ sends < MaxSends
    /\ bridge' = ~bridge
    /\ sends' = sends + 1
    /\ UNCHANGED <<loaded, lit, driving, enable, pc, fsmv, rx, line, queries, current>>

\* ClearFSMs() begins with ListFSMs(): its handler is installed, then the
\* message is sent.
CallClear ==
    /\ pc = "idle" /\ sends < MaxSends
    /\ Send([kind |-> "LIST", query |-> queries + 1])
    /\ sends' = sends + 1
    /\ queries' = queries + 1
    /\ pc' = "listing"
    /\ fsmv' = <<>>
    /\ current' = FALSE
    /\ UNCHANGED <<board, line>>

\* A list arrives.  The handler takes it whatever query it answers; without a
\* handler it is dropped.
Arrive ==
    /\ line # <<>>
    /\ line' = Tail(line)
    /\ IF pc = "listing"
       THEN /\ fsmv' = Head(line).fsms
            /\ pc' = "destroying"
            /\ current' = (Head(line).query = queries)
       ELSE UNCHANGED <<fsmv, pc, current>>
    /\ UNCHANGED <<board, rx, sends, queries>>

\* The query times out: there is nothing to destroy.
GiveUp ==
    /\ pc = "listing"
    /\ pc' = "idle"
    /\ UNCHANGED <<board, rx, line, fsmv, sends, queries, current>>

\* The loop of ClearFSMs(), in the order of the list.  (Slip: the first FSM is
\* skipped.)
DestroyNext_Skips ==
    /\ pc = "destroying"
    /\ IF Len(fsmv) < 2
       THEN pc' = "idle" /\ fsmv' = <<>> /\ UNCHANGED rx
       ELSE /\ Send([kind |-> "DESTROY", fp |-> fsmv[2]])
            /\ fsmv' = Tail(fsmv)
            /\ UNCHANGED pc
    /\ UNCHANGED <<board, line, sends, queries, current>>
DestroyNext ==
    /\ pc = "destroying"
    /\ IF fsmv = <<>>
       THEN pc' = "idle" /\ UNCHANGED <<fsmv, rx>>
       ELSE /\ Send([kind |-> "DESTROY", fp |-> Head(fsmv)])
            /\ fsmv' = Tail(fsmv)
            /\ UNCHANGED pc
    /\ UNCHANGED <<board, line, sends, queries, current>>

Console ==
    \/ CallCreate \/ CallDestroy \/ CallCommand \/ SetBridge
    \/ CallClear \/ Arrive \/ GiveUp \/ DestroyNext
-----------------------------------------------------------------------------
(* The board *)

\* SerialCallback(), as far as objects and pins go.
Handle(m) ==
    \/ m.kind = "CREATE" /\ Create(m.fp) /\ UNCHANGED line
    \/ m.kind = "DESTROY" /\ Destroy(m.fp) /\ UNCHANGED line
    \/ m.kind = "COMMAND" /\ Command(m.msg) /\ UNCHANGED line
    \/ /\ m.kind = "LIST"
       /\ line' = Append(line, [query |-> m.query, fsms |-> Fps(loaded)])
       /\ UNCHANGED board

SerialCallback ==
    /\ rx # <<>>
    /\ rx' = Tail(rx)
    /\ Handle(Head(rx))
    /\ UNCHANGED host

Step == StepFsm /\ UNCHANGED <<host, rx, line>>

-----------------------------------------------------------------------------
Booted(fps) ==
    /\ loaded = [k \in DOMAIN fps |-> New(fps[k])]
    /\ lit = [p \in Pins |-> FALSE]
    /\ driving = FALSE /\ bridge = FALSE
    /\ enable = TRUE
    /\ pc = "idle" /\ fsmv = <<>>
    /\ rx = <<>> /\ line = <<>>
    /\ sends = 0 /\ queries = 0
    /\ current = FALSE

Init == Booted(BootFsms)

Next == Console \/ SerialCallback \/ Step

Spec == Init /\ [][Next]_session
-----------------------------------------------------------------------------
(* Properties *)

TypeOK ==
    /\ BoardTypeOK
    /\ pc \in {"idle", "listing", "destroying"}
    /\ fsmv \in Seq(Loadable)
    /\ rx \in Seq(Requests)
    /\ line \in Seq([query : Nat, fsms : Seq(Loadable)])
    /\ sends \in Nat /\ queries \in Nat
    /\ current \in BOOLEAN

\* A lit LED belongs to a loaded FSM whose destructor will put it out (the
\* post-condition of Fade.h, Blink.h, Toggle.h and BatteryMonitor.h), however
\* many share it and whichever was destroyed before.
LitIsOwned ==
    \A p \in Pins \ UntidyPins :
        lit[p] => \E k \in DOMAIN loaded : p \in LowPins(loaded[k].fp)

\* When every DESTROY of a ClearFSMs() has been handled nothing is loaded and
\* every LED is dark, equal FSMs included, unless the list was the late answer
\* to an earlier query (AVRController.cpp:395-401, FSMVector.h:64-77).
ClearLeavesNothing ==
    current /\ pc = "idle" /\ rx = <<>> =>
        /\ loaded = <<>>
        /\ \A p \in Pins \ UntidyPins : ~lit[p]

\* Motors that run have a MotorController whose next step stops them.  When that
\* step comes is not said here: that Erase() may leave the controller with the
\* deadline of another slot is MecanumMaster's MotorsTimeOut.
Watched == driving => \E k \in DOMAIN loaded : Is(k, "FSM_MOTORCONTROLLER") /\ loaded[k].armed

\* Only destroying a MotorController leaves them without one (MotorController.h:59
\* has an empty destructor): no timeout, message, creation or other FSM's step does.
WatchdogLostOnlyByDestroy ==
    [][Watched /\ ~Watched' =>
        /\ rx # <<>> /\ Head(rx).kind = "DESTROY"
        /\ Head(rx).fp.id = "FSM_MOTORCONTROLLER"]_session

\* The tree's steps leave the emergency light to the others that use it: Upstart
\* fades the same LED while the tree spins (Upstart.cpp:175), and the tree's
\* fifth fader must not get in its way (ChristmasTree.cpp:107).
TreeLeavesEmergencyAlone ==
    [][lit'["LED_EMERGENCY"] # lit["LED_EMERGENCY"] =>
        \A k \in DOMAIN loaded : ~StepTree(k)]_session

\* The lights flare up one after the other: the turn is passed on at full
\* brightness only, and to a light that has died down completely since its last
\* turn, although lights fade slower than they flare (ChristmasTree.cpp:127).
TakesItsTurn(before, after) ==
    before.state = "Spinning" /\ after.target # before.target =>
        /\ after.target = Following(before.target)
        /\ before.fader[before.target].brightness = FULL
        /\ before.fader[after.target].brightness = 0
SpinnersTakeTurns ==
    [][Len(loaded') = Len(loaded) =>
        \A k \in DOMAIN loaded :
            Is(k, "FSM_CHRISTMASTREE") => TakesItsTurn(loaded[k].tree, loaded'[k].tree)]_session

\* A Fade is dark again only after it has been at full brightness, and its
\* cycle takes the period it was given, or longer, but less than twice that and
\* two delays: the truncated step (Fade.cpp:62) makes "one period" longer.
FadesWholeCycles ==
    \A k \in DOMAIN loaded :
        Is(k, "FSM_FADE") /\ loaded[k].fader.brightness = 0 /\ loaded[k].fader.age > 0
            => WholeCycle(loaded[k].fader)
=============================================================================

---------------------------- MODULE AVRController ----------------------------
(***************************************************************************)
(* The host's end of the serial link: one owner thread that opens, resets  *)
(* and closes the port, client threads that call Send(), Query() and       *)
(* Receive(), the write thread, and the read thread that runs the          *)
(* completion handler of the asynchronous read.                            *)
(*                                                                         *)
(* Steps end where another thread can see a difference: at a lock, a wait, *)
(* a notification, a join or a volatile access.  The response mutex is     *)
(* never held across such a point, so its critical sections are steps.     *)
(* A message travels as two parts, its length word and the rest, because   *)
(* that is how Message reads it; contents are not modelled.                *)
(*                                                                         *)
(* External, as the code uses it: boost::asio (an asynchronous read is     *)
(* outstanding, then completed and queued for m_io.run(); closing or       *)
(* cancelling completes it with no data), boost::thread and the Arduino.   *)
(***************************************************************************)
EXTENDS Naturals, Sequences, FiniteSets

CONSTANTS
    Clients,      \* threads calling Send(), Query() and Receive()
    FsmIDs,       \* the FSMs they talk to
    NULL,
    OwnerCalls,   \* what the owner may call: a subset of {"Open", "Reset", "Close"}
    ClientCalls,  \* a subset of {"Send", "Query", "Receive"}
    Publishers,   \* the FSMs that send messages nobody asked for
    MaxOpens,     \* bound: calls of Open() and Reset()
    MaxCalls      \* bound: calls each client makes

ASSUME NameAssumption ==
    /\ NULL \notin Clients \cup FsmIDs
    /\ {"owner", "writer", "reader"} \cap Clients = {}
ASSUME CallAssumption ==
    /\ OwnerCalls \subseteq {"Open", "Reset", "Close"}
    /\ ClientCalls \subseteq {"Send", "Query", "Receive"}
    /\ Publishers \subseteq FsmIDs
    /\ MaxOpens \in Nat /\ MaxCalls \in Nat

VARIABLES
    m_bRunning, m_deviceName, m_writeQueue, m_responseHandlers,
    portOpen,            \* m_port.is_open()
    portMutex,           \* holder of m_portMutex, or NULL
    queueMutex,          \* holder of m_writeQueueMutex, or NULL
    m_message,           \* the message whose length word has been read, or NULL
    reads,               \* asynchronous reads outstanding
    completions,         \* completed reads whose handler has not run yet
    pc,                  \* where each thread is
    call,                \* the call each thread but the readers' is in
    held,                \* the message the write thread took off the queue
    count,               \* calls of Open() or Reset(), and of each client
    asked, response,     \* Query()'s fsmId and *strResponse of each client
    result,              \* what each client's last Query() or Receive() returned
    wire, answered,      \* requests written; how many the Arduino has dealt with
    line                 \* parts the Arduino sent that have not been read

flags == <<m_bRunning, m_deviceName>>
port == <<portOpen, portMutex>>
queue == <<m_writeQueue, queueMutex, held>>
async == <<m_message, reads, completions>>
calls == <<call, count, asked, response, result, m_responseHandlers>>
device == <<wire, answered, line>>
vars == <<flags, port, queue, async, calls, device, pc>>

Threads == {"owner", "writer", "reader"} \cup Clients
Requests == [fsm : FsmIDs, client : Clients, n : 1 .. MaxCalls]
Published(f) == [fsm |-> f, client |-> NULL, n |-> 0]
Messages == Requests \cup {Published(f) : f \in FsmIDs}
Mixed == [fsm |-> "mixed", client |-> NULL, n |-> 0]  \* bytes of several messages
Parts == [part : {"length", "rest"}, msg : Messages]

\* NULL is nothing that is sent, read or returned, and Mixed is no FSM's message.
ASSUME NullAssumption ==
    /\ "mixed" \notin FsmIDs
    /\ NULL \notin Messages \cup Parts \cup {Mixed} \cup BOOLEAN
    /\ NULL \notin {"owner", "writer"}

\* thread t goes on at label l
Go(t, l) == pc' = [pc EXCEPT ![t] = l]

\* m_port.cancel() and close(): outstanding reads complete with no bytes.
CancelReads ==
    /\ completions' = completions \o [k \in 1 .. reads |-> NULL]
    /\ reads' = 0
-----------------------------------------------------------------------------
(* Close(), which ~AVRController(), Open() and Reset() begin with *)

OwnerCall(op) ==
    /\ pc["owner"] = "idle"
    /\ op # "Close" => count["owner"] < MaxOpens
    /\ count' = [count EXCEPT !["owner"] = @ + IF op = "Close" THEN 0 ELSE 1]
    /\ call' = [call EXCEPT !["owner"] = op]
    /\ Go("owner", "stop")
    /\ UNCHANGED <<flags, port, queue, async, asked, response, result,
                   m_responseHandlers, device>>

\* m_bRunning = false
CloseStop ==
    /\ pc["owner"] = "stop"
    /\ m_bRunning' = FALSE
    /\ Go("owner", "notify")
    /\ UNCHANGED <<m_deviceName, port, queue, async, calls, device>>

\* m_writeQueueCondition.notify_one(), without the queue's mutex
CloseNotify ==
    /\ pc["owner"] = "notify"
    /\ pc' = [pc EXCEPT !["owner"] = "join writer",
                        !["writer"] = IF @ = "wait" THEN "lock" ELSE @]
    /\ UNCHANGED <<flags, port, queue, async, calls, device>>

\* A slip: the port is closed without waiting for the write thread.
CloseJoinWriter_NoJoin ==
    /\ pc["owner"] = "join writer"
    /\ m_deviceName' = ""
    /\ Go("owner", "lock port")
    /\ UNCHANGED <<m_bRunning, port, queue, async, calls, device>>

\* m_writeThread.join(); m_deviceName = ""
CloseJoinWriter ==
    /\ pc["owner"] = "join writer"
    /\ pc["writer"] = "dead"
    /\ m_deviceName' = ""
    /\ Go("owner", "lock port")
    /\ UNCHANGED <<m_bRunning, port, queue, async, calls, device>>

\* A slip: the port is closed, but the outstanding read is not completed.
ClosePort_NoCancel ==
    /\ pc["owner"] = "lock port"
    /\ portMutex = NULL
    /\ portMutex' = "owner"
    /\ portOpen' = FALSE
    /\ Go("owner", "join reader")
    /\ UNCHANGED <<flags, queue, async, calls, device>>

\* m_portMutex is locked and the port cancelled and closed
ClosePort ==
    /\ pc["owner"] = "lock port"
    /\ portMutex = NULL
    /\ portMutex' = "owner"
    /\ IF portOpen THEN CancelReads ELSE UNCHANGED <<reads, completions>>
    /\ portOpen' = FALSE
    /\ Go("owner", "join reader")
    /\ UNCHANGED <<flags, queue, m_message, calls, device>>

\* m_readThread.join(); only then is m_portMutex released.
CloseJoinReader ==
    /\ pc["owner"] = "join reader"
    /\ pc["reader"] = "dead"
    /\ portMutex' = NULL
    /\ Go("owner", IF call["owner"] = "Close" THEN "idle" ELSE "open")
    /\ UNCHANGED <<flags, portOpen, queue, async, calls, device>>
-----------------------------------------------------------------------------
(* Open() and Reset(), after Close().  Reset() passes m_deviceName itself, by *)
(* reference: what is opened is the name Close() has left.                    *)

Device == IF call["owner"] = "Reset" THEN m_deviceName ELSE "tty"

\* Opening the port resets the Arduino, and what was under way is gone.
OpenPort ==
    /\ pc["owner"] = "open"
    /\ portMutex = NULL
    /\ Device # ""
    /\ portMutex' = "owner"
    /\ portOpen' = TRUE
    /\ line' = <<>>
    /\ answered' = Len(wire)
    /\ Go("owner", "start")
    /\ UNCHANGED <<flags, queue, async, calls, wire>>

\* m_port.open() throws, as it does for a name that is "": Open() returns false.
OpenFails ==
    /\ pc["owner"] = "open"
    /\ portMutex = NULL
    /\ Go("owner", "idle")
    /\ UNCHANGED <<flags, port, queue, async, calls, device>>

\* A set_option() throws: Open() returns false, and leaves the port open.
OpenGivesUp ==
    /\ pc["owner"] = "start"
    /\ portMutex' = NULL
    /\ Go("owner", "idle")
    /\ UNCHANGED <<flags, portOpen, queue, async, calls, device>>

\* m_bRunning = true and the write thread is started
OpenStartWriter ==
    /\ pc["owner"] = "start"
    /\ m_bRunning' = TRUE
    /\ pc' = [pc EXCEPT !["owner"] = "start reader", !["writer"] = "lock"]
    /\ UNCHANGED <<m_deviceName, port, queue, async, calls, device>>

\* InstallAsyncRead(), the read thread is started and m_portMutex released
OpenStartReader ==
    /\ pc["owner"] = "start reader"
    /\ reads' = reads + 1
    /\ m_deviceName' = Device
    /\ portMutex' = NULL
    /\ pc' = [pc EXCEPT !["owner"] = "idle", !["reader"] = "top"]
    /\ UNCHANGED <<m_bRunning, portOpen, queue, m_message, completions, calls, device>>

Owner ==
    \/ CloseStop \/ CloseNotify \/ CloseJoinWriter \/ ClosePort \/ CloseJoinReader
    \/ OpenPort \/ OpenFails \/ OpenGivesUp \/ OpenStartWriter \/ OpenStartReader
-----------------------------------------------------------------------------
(* WriteThreadRun() *)

\* The queue is locked and there is nothing to do: the thread is about to wait.
WriterIdle ==
    /\ pc["writer"] = "lock"
    /\ queueMutex = NULL
    /\ m_writeQueue = <<>> /\ m_bRunning
    /\ queueMutex' = "writer"
    /\ Go("writer", "to wait")
    /\ UNCHANGED <<flags, port, m_writeQueue, held, async, calls, device>>

\* A slip: the thread sleeps with the queue locked.
WriterWait_Locked ==
    /\ pc["writer"] = "to wait"
    /\ queueMutex' = queueMutex
    /\ Go("writer", "wait")
    /\ UNCHANGED <<flags, port, m_writeQueue, held, async, calls, device>>

\* wait() puts the thread in the wait set and unlocks the queue in one step.
WriterWait ==
    /\ pc["writer"] = "to wait"
    /\ queueMutex' = NULL
    /\ Go("writer", "wait")
    /\ UNCHANGED <<flags, port, m_writeQueue, held, async, calls, device>>

\* Awake and no longer running: the queue is discarded and the thread ends.
WriterExit ==
    /\ pc["writer"] = "lock"
    /\ queueMutex = NULL
    /\ ~m_bRunning
    /\ m_writeQueue' = <<>>
    /\ Go("writer", "dead")
    /\ UNCHANGED <<flags, port, queueMutex, held, async, calls, device>>

\* A slip of taking the oldest message: the newest is taken.
WriterTake_Last ==
    /\ pc["writer"] = "lock"
    /\ queueMutex = NULL
    /\ m_writeQueue # <<>> /\ m_bRunning
    /\ held' = m_writeQueue[Len(m_writeQueue)]
    /\ m_writeQueue' = SubSeq(m_writeQueue, 1, Len(m_writeQueue) - 1)
    /\ Go("writer", "lock port")
    /\ UNCHANGED <<flags, port, queueMutex, async, calls, device>>

WriterTake ==
    /\ pc["writer"] = "lock"
    /\ queueMutex = NULL
    /\ m_writeQueue # <<>> /\ m_bRunning
    /\ held' = Head(m_writeQueue)
    /\ m_writeQueue' = Tail(m_writeQueue)
    /\ Go("writer", "lock port")
    /\ UNCHANGED <<flags, port, queueMutex, async, calls, device>>

\* m_portMutex is locked and the outstanding read cancelled
WriterCancel ==
    /\ pc["writer"] = "lock port"
    /\ portMutex = NULL
    /\ portMutex' = "writer"
    /\ CancelReads
    /\ Go("writer", "write")
    /\ UNCHANGED <<flags, portOpen, queue, m_message, calls, device>>

\* A slip: the write thread installs the read again itself.
WriterWrite_Reinstalls ==
    /\ pc["writer"] = "write"
    /\ wire' = Append(wire, held)
    /\ held' = NULL
    /\ reads' = reads + 1
    /\ portMutex' = NULL
    /\ Go("writer", "lock")
    /\ UNCHANGED <<flags, portOpen, m_writeQueue, queueMutex, m_message, completions, calls, answered,
                   line>>

\* the message is written synchronously and m_portMutex released
WriterWrite ==
    /\ pc["writer"] = "write"
    /\ wire' = Append(wire, held)
    /\ held' = NULL
    /\ portMutex' = NULL
    /\ Go("writer", "lock")
    /\ UNCHANGED <<flags, portOpen, m_writeQueue, queueMutex, async, calls, answered,
                   line>>

Writer ==
    WriterIdle \/ WriterWait \/ WriterExit \/ WriterTake \/ WriterCancel \/ WriterWrite
-----------------------------------------------------------------------------
(* ReadThreadRun() and ReadCallback() *)

ReaderTop ==
    /\ pc["reader"] = "top"
    /\ Go("reader", IF m_bRunning THEN "run" ELSE "dead")
    /\ UNCHANGED <<flags, port, queue, async, calls, device>>

\* m_io.run() has no work left; m_io.reset() and the loop's test follow.
ReaderOutOfWork ==
    /\ pc["reader"] = "run"
    /\ reads = 0 /\ completions = <<>>
    /\ Go("reader", "top")
    /\ UNCHANGED <<flags, port, queue, async, calls, device>>

\* Message::Advance() with the part that was read (NULL: no bytes): the states
\* m_message may be left in, and the message finished by it, or NULL.
Advance(part) ==
    IF part = NULL THEN {[left |-> m_message, done |-> NULL]}
    ELSE IF m_message # NULL
    THEN {[left |-> NULL,
           done |-> IF part = [part |-> "rest", msg |-> m_message]
                    THEN m_message ELSE Mixed]}
    ELSE IF part.part = "length" THEN {[left |-> part.msg, done |-> NULL]}
    ELSE {[left |-> l, done |-> NULL] : l \in {NULL, Mixed}}

\* The handlers a message of FSM f is for.  (A slip: all of them.)
Hit_All(f) == m_responseHandlers
Hit(f) == {h \in m_responseHandlers : h.fsm = f}

\* Every handler waiting for FSM f gets msg, is notified and removed.  One whose
\* client has stopped waiting writes to a string nobody reads.
Deliver(f, msg) ==
    LET Reached == {c \in Clients : /\ pc[c] # "idle"
                                    /\ \E h \in Hit(f) : h.client = c /\ h.n = count[c]}
    IN  /\ m_responseHandlers' = m_responseHandlers \ Hit(f)
        /\ response' = [c \in Clients |-> IF c \in Reached THEN msg ELSE response[c]]
        /\ pc' = [t \in Threads |-> IF t = "reader" THEN "check"
                                    ELSE IF t \in Reached /\ pc[t] = "wait" THEN "woken"
                                    ELSE pc[t]]

\* The completion handler runs, up to its test of m_bRunning.
ReadCallback ==
    /\ pc["reader"] = "run"
    /\ completions # <<>>
    /\ completions' = Tail(completions)
    /\ \E next \in Advance(Head(completions)) :
         /\ m_message' = next.left
         /\ IF next.done = NULL
            THEN Go("reader", "check") /\ UNCHANGED <<m_responseHandlers, response>>
            ELSE \E f \in FsmIDs :
                   /\ next.done # Mixed => f = next.done.fsm
                   /\ Deliver(f, next.done)
    /\ UNCHANGED <<flags, port, queue, reads, call, count, asked, result, device>>

\* A slip: the handler leaves re-installing the read to somebody else.
ReaderCheck_NoInstall ==
    /\ pc["reader"] = "check"
    /\ Go("reader", "run")
    /\ UNCHANGED <<flags, port, queue, async, calls, device>>

ReaderCheck ==
    /\ pc["reader"] = "check"
    /\ Go("reader", IF m_bRunning THEN "lock port" ELSE "run")
    /\ UNCHANGED <<flags, port, queue, async, calls, device>>

\* InstallAsyncRead() under m_portMutex.  On a closed port the read completes
\* at once, with an error the handler ignores.
ReaderInstall ==
    /\ pc["reader"] = "lock port"
    /\ portMutex = NULL
    /\ IF portOpen THEN reads' = reads + 1 /\ UNCHANGED completions
                   ELSE completions' = Append(completions, NULL) /\ UNCHANGED reads
    /\ Go("reader", "run")
    /\ UNCHANGED <<flags, port, queue, m_message, calls, device>>

Reader == ReaderTop \/ ReaderOutOfWork \/ ReadCallback \/ ReaderCheck \/ ReaderInstall
-----------------------------------------------------------------------------
(* Send(), Query() and Receive() *)

\* A call begins; Query() and Receive() install their response handler first.
ClientCall(c) ==
    /\ pc[c] = "idle"
    /\ count[c] < MaxCalls
    /\ count' = [count EXCEPT ![c] = @ + 1]
    /\ response' = [response EXCEPT ![c] = NULL]
    /\ result' = [result EXCEPT ![c] = NULL]
    /\ \E op \in ClientCalls, f \in FsmIDs :
         /\ call' = [call EXCEPT ![c] = op]
         /\ asked' = [asked EXCEPT ![c] = f]
         /\ m_responseHandlers' =
              m_responseHandlers \cup
                IF op = "Send" THEN {} ELSE {[fsm |-> f, client |-> c, n |-> count'[c]]}
         /\ Go(c, IF op = "Receive" THEN "to wait" ELSE "send")
    /\ UNCHANGED <<flags, port, queue, async, device>>

\* A slip: the write thread is not notified.
ClientSend_Silent(c) ==
    /\ pc[c] = "send"
    /\ queueMutex = NULL
    /\ m_writeQueue' =
         Append(m_writeQueue, [fsm |-> asked[c], client |-> c, n |-> count[c]])
    /\ pc' = [pc EXCEPT ![c] = IF call[c] = "Send" THEN "idle" ELSE "to wait"]
    /\ UNCHANGED <<flags, port, queueMutex, held, async, calls, device>>

\* Send(): the message is queued and the write thread notified.
ClientSend(c) ==
    /\ pc[c] = "send"
    /\ queueMutex = NULL
    /\ m_writeQueue' =
         Append(m_writeQueue, [fsm |-> asked[c], client |-> c, n |-> count[c]])
    /\ pc' = [pc EXCEPT ![c] = IF call[c] = "Send" THEN "idle" ELSE "to wait",
                        !["writer"] = IF @ = "wait" THEN "lock" ELSE @]
    /\ UNCHANGED <<flags, port, queueMutex, held, async, calls, device>>

\* timed_wait() begins.  The mutex it releases is the client's own, so a
\* notification sent before this step is not seen.
ClientWait(c) ==
    /\ pc[c] = "to wait"
    /\ Go(c, "wait")
    /\ UNCHANGED <<flags, port, queue, async, calls, device>>

\* timed_wait() times out: the call returns false and its handler stays.
ClientTimeout(c) ==
    /\ pc[c] = "wait"
    /\ result' = [result EXCEPT ![c] = FALSE]
    /\ Go(c, "idle")
    /\ UNCHANGED <<flags, port, queue, async, call, count, asked, response,
                   m_responseHandlers, device>>

\* timed_wait() was notified: the call returns what is in *strResponse.
ClientWoken(c) ==
    /\ pc[c] = "woken"
    /\ result' = [result EXCEPT ![c] = (response[c] # NULL)]
    /\ Go(c, "idle")
    /\ UNCHANGED <<flags, port, queue, async, call, count, asked, response,
                   m_responseHandlers, device>>

\* the steps of a call that has begun
Client(c) == ClientSend(c) \/ ClientWait(c) \/ ClientTimeout(c) \/ ClientWoken(c)
-----------------------------------------------------------------------------
(* The serial port and the Arduino *)

Split(m) == <<[part |-> "length", msg |-> m], [part |-> "rest", msg |-> m]>>

\* The Arduino takes the next request, and may reply to it.
ArduinoAnswer ==
    /\ portOpen
    /\ answered < Len(wire)
    /\ answered' = answered + 1
    /\ line' \in {line, line \o Split(wire[answered + 1])}
    /\ UNCHANGED <<flags, port, queue, async, calls, wire, pc>>

\* An FSM publishes on its own; bound: only when everything has been read.
ArduinoPublish ==
    /\ portOpen
    /\ line = <<>>
    /\ \E f \in Publishers : line' = Split(Published(f))
    /\ UNCHANGED <<flags, port, queue, async, calls, wire, answered, pc>>

\* Data completes the outstanding read.
DataArrives ==
    /\ portOpen
    /\ reads > 0
    /\ line # <<>>
    /\ reads' = reads - 1
    /\ completions' = Append(completions, Head(line))
    /\ line' = Tail(line)
    /\ UNCHANGED <<flags, port, queue, m_message, calls, wire, answered, pc>>
-----------------------------------------------------------------------------
Init ==
    /\ m_bRunning = FALSE /\ m_deviceName = "" /\ portOpen = FALSE
    /\ m_writeQueue = <<>> /\ m_responseHandlers = {}
    /\ portMutex = NULL /\ queueMutex = NULL
    /\ m_message = NULL /\ reads = 0 /\ completions = <<>>
    /\ pc = [t \in Threads |-> IF t \in {"writer", "reader"} THEN "dead" ELSE "idle"]
    /\ call = [t \in Threads |-> NULL]
    /\ held = NULL
    /\ count = [t \in Threads |-> 0]
    /\ asked = [c \in Clients |-> NULL]
    /\ response = [c \in Clients |-> NULL]
    /\ result = [c \in Clients |-> NULL]
    /\ wire = <<>> /\ answered = 0 /\ line = <<>>

Next ==
    \/ \E op \in OwnerCalls : OwnerCall(op)
    \/ Owner
    \/ Writer
    \/ Reader
    \/ \E c \in Clients : ClientCall(c) \/ Client(c)
    \/ ArduinoAnswer \/ ArduinoPublish \/ DataArrives

Spec == Init /\ [][Next]_vars

\* The operating system runs every thread, and data that can be read is read.
\* Nobody has to make a call, and the Arduino need not answer.
FairSpec ==
    /\ Spec
    /\ WF_vars(Owner) /\ WF_vars(Writer) /\ WF_vars(Reader) /\ WF_vars(DataArrives)
    /\ \A c \in Clients : WF_vars(Client(c))
-----------------------------------------------------------------------------
(* Properties *)

TypeOK ==
    /\ m_bRunning \in BOOLEAN /\ portOpen \in BOOLEAN
    /\ m_deviceName \in {"", "tty"}
    /\ m_writeQueue \in Seq(Requests)
    /\ m_responseHandlers \subseteq Requests
    /\ portMutex \in {"owner", "writer", NULL}
    /\ queueMutex \in {"writer", NULL}
    /\ m_message \in Messages \cup {NULL, Mixed}
    /\ reads \in Nat
    /\ completions \in Seq(Parts \cup {NULL})
    /\ held \in Requests \cup {NULL}
    /\ call \in [Threads -> OwnerCalls \cup ClientCalls \cup {NULL}]
    /\ count \in [Threads -> 0 .. MaxOpens + MaxCalls]
    /\ asked \in [Clients -> FsmIDs \cup {NULL}]
    /\ response \in [Clients -> Messages \cup {NULL, Mixed}]
    /\ result \in [Clients -> BOOLEAN \cup {NULL}]
    /\ wire \in Seq(Requests)
    /\ answered \in 0 .. Len(wire)
    /\ line \in Seq(Parts)

\* The write thread cancels the read and writes only while the port is open:
\* on a closed port both throw, and nothing catches it (AVRController.cpp:241).
WritesToOpenPort == pc["writer"] \in {"lock port", "write"} => portOpen

\* "to avoid putting multiple callbacks on the same port" (AVRController.h:122):
\* there is one read outstanding or completed, or the read thread is between
\* the handler and InstallAsyncRead() and there is none.
OneCallback ==
    reads + Len(completions) <= IF pc["reader"] \in {"check", "lock port"} THEN 0 ELSE 1

\* What Send() accepts is written in that order, once; what the thread has in
\* hand when the port is being closed is still written.
Outgoing == INSTANCE Outbox WITH
    Messages <- Requests,
    outbox <- (IF held = NULL THEN <<>> ELSE <<held>>) \o m_writeQueue,
    closing <- ~m_bRunning
OutgoingSpec == Outgoing!Spec

\* "If true, response is guaranteed to be a valid AVR string" (AVRController.h:84):
\* a whole message of the FSM that was asked.
AnswersAreWhole ==
    \A c \in Clients : result[c] = TRUE => response[c] # Mixed /\ response[c].fsm = asked[c]

\* "Disconnect from the Arduino and close the serial port" (AVRController.h:48):
\* Close() does not hold what the thread it joins is waiting for.
NoJoinDeadlock ==
    ~ (pc["owner"] = "join reader" /\ pc["reader"] = "lock port" /\ portMutex = "owner")

\* "Reset the Arduino and unload all FSMs" (AVRController.h:53): Reset() opens
\* the device that was open, so its name is not lost on the way.
ResetKeepsDevice ==
    [][call["owner"] = "Reset" /\ m_deviceName # "" => m_deviceName' # ""]_vars

\* Close(), and what begins with it, returns.  Two ways to hang remain: the
\* notification of line 101 fell between the write thread's test and its wait, so
\* that nobody wakes it for the join; or NoJoinDeadlock is violated.
LostNotification == pc["owner"] = "join writer" /\ pc["writer"] = "wait"
CloseReturns ==
    pc["owner"] # "idle" ~> pc["owner"] = "idle" \/ LostNotification \/ ~NoJoinDeadlock

\* No read is outstanding, and none has completed.
Empty == reads = 0 /\ completions = <<>>

\* Steps the two threads that Close() joins can take.
WriterCanGoOn ==
    \/ pc["writer"] \in {"to wait", "write"}
    \/ pc["writer"] = "lock" /\ queueMutex = NULL
    \/ pc["writer"] = "lock port" /\ portMutex = NULL
ReaderCanGoOn ==
    \/ pc["reader"] \in {"top", "check"}
    \/ pc["reader"] = "run" /\ (completions # <<>> \/ Empty)
    \/ pc["reader"] = "lock port" /\ portMutex = NULL

\* At every lock and join of Close() what it waits for has come, or the thread
\* that is to bring it about can go on by itself, but for the same two hangs
\* (AVRController.cpp:102, :105, :112).
CloseGoesOn ==
    /\ pc["owner"] = "join writer" =>
           pc["writer"] = "dead" \/ WriterCanGoOn \/ LostNotification
    /\ pc["owner"] \in {"lock port", "open"} => portMutex = NULL
    /\ pc["owner"] = "join reader" =>
           pc["reader"] = "dead" \/ ReaderCanGoOn \/ ~NoJoinDeadlock

\* While the threads run, whatever is queued is written ...
QueueDrains == m_bRunning /\ m_writeQueue # <<>> ~> m_writeQueue = <<>>

\* ... and the read that a write cancelled is installed again.
ReadResumes == m_bRunning /\ reads = 0 ~> reads = 1 \/ ~m_bRunning
=============================================================================

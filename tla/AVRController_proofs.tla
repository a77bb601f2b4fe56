------------------------ MODULE AVRController_proofs -------------------------
(***************************************************************************)
(* Theorems about the host's end of the serial link, for any clients, FSMs *)
(* and calls; and, at the end, about its parser, byte by byte.             *)
(***************************************************************************)
EXTENDS AVRController, MessageParser, SequenceTheorems, WellFoundedInduction, TLAPS

(***************************************************************************)
(* The invariant                                                           *)
(***************************************************************************)

OwnerLabels == {"idle", "stop", "notify", "join writer", "lock port", "join reader",
                "open", "start", "start reader"}
WriterLabels == {"dead", "lock", "to wait", "wait", "lock port", "write"}
ReaderLabels == {"dead", "top", "run", "check", "lock port"}
ClientLabels == {"idle", "send", "to wait", "wait", "woken"}
Labels == OwnerLabels \cup WriterLabels \cup ReaderLabels \cup ClientLabels

PcOK ==
    /\ pc \in [Threads -> Labels]
    /\ pc["owner"] \in OwnerLabels
    /\ pc["writer"] \in WriterLabels
    /\ pc["reader"] \in ReaderLabels
    /\ \A c \in Clients : pc[c] \in ClientLabels

\* Which threads there are while the owner is in Close() and Open().
ThreadsOK ==
    /\ pc["owner"] \in {"notify", "join writer", "lock port", "join reader", "open", "start"} =>
           ~m_bRunning
    /\ pc["owner"] \in {"lock port", "join reader", "open", "start"} => pc["writer"] = "dead"
    /\ pc["owner"] \in {"open", "start", "start reader"} => pc["reader"] = "dead"
    /\ pc["writer"] = "dead" => ~m_bRunning

\* The port, and who holds its mutex.
PortOK ==
    /\ pc["writer"] # "dead" => portOpen
    /\ pc["owner"] \in {"join reader", "open"} => ~portOpen
    /\ pc["owner"] \in {"start", "start reader"} => portOpen
    /\ portMutex = "owner" <=> pc["owner"] \in {"join reader", "start", "start reader"}
    /\ portMutex = "writer" <=> pc["writer"] = "write"

\* What the write thread has taken off the queue it has not written yet.
HeldOK == held # NULL <=> pc["writer"] \in {"lock port", "write"}

\* The calls clients are in.
CallsOK ==
    \A c \in Clients :
        /\ count[c] \in 0 .. MaxCalls
        /\ pc[c] # "idle" => count[c] > 0 /\ asked[c] \in FsmIDs

Control == PcOK /\ ThreadsOK /\ PortOK /\ HeldOK

SessionInv == TypeOK /\ Control /\ CallsOK

LEMMA RequestsAreMessages ==
    /\ Requests \subseteq Messages
    /\ NULL \notin Messages /\ NULL \notin Requests /\ NULL # Mixed
BY NullAssumption DEF Messages

LEMMA QueueHead ==
    ASSUME TypeOK, m_writeQueue # <<>>
    PROVE  /\ Head(m_writeQueue) \in Requests
           /\ Tail(m_writeQueue) \in Seq(Requests)
BY HeadTailProperties DEF TypeOK

\* The handler moves the read thread, and wakes clients that wait.
CallbackMoves ==
    /\ pc["reader"] = "run"
    /\ pc' \in [Threads -> Labels]
    /\ pc'["reader"] = "check"
    /\ pc'["owner"] = pc["owner"] /\ pc'["writer"] = pc["writer"]
    /\ \A c \in Clients : (pc'[c] = pc[c]) \/ (pc[c] = "wait" /\ pc'[c] = "woken")

LEMMA CallbackFrame ==
    ASSUME PcOK, ReadCallback
    PROVE  /\ CallbackMoves
           /\ UNCHANGED <<flags, port, queue, reads, call, count, asked, result, device>>
<1>1. /\ pc["reader"] = "run" /\ pc \in [Threads -> Labels]
      /\ "owner" \in Threads /\ "writer" \in Threads /\ "reader" \in Threads
      /\ \A c \in Clients : c \in Threads /\ c # "owner" /\ c # "writer" /\ c # "reader"
      /\ "check" \in Labels /\ "woken" \in Labels
      BY NameAssumption DEF ReadCallback, PcOK, Threads, Labels, ReaderLabels, ClientLabels
<1>2. ASSUME Go("reader", "check") PROVE CallbackMoves
  <2>1. pc' \in [Threads -> Labels] /\ pc'["reader"] = "check"
        BY <1>1, <1>2 DEF Go
  <2>2. pc'["owner"] = pc["owner"] /\ pc'["writer"] = pc["writer"]
        BY <1>1, <1>2 DEF Go
  <2>3. \A c \in Clients : pc'[c] = pc[c]
        BY <1>1, <1>2 DEF Go
  <2> QED BY <1>1, <2>1, <2>2, <2>3 DEF CallbackMoves
<1>3. ASSUME NEW f, NEW m, Deliver(f, m) PROVE CallbackMoves
  <2>1. PICK Reached \in SUBSET Clients :
           pc' = [t \in Threads |-> IF t = "reader" THEN "check"
                                 ELSE IF t \in Reached /\ pc[t] = "wait" THEN "woken"
                                 ELSE pc[t]]
        BY <1>3 DEF Deliver
  <2>2. pc' \in [Threads -> Labels] /\ pc'["reader"] = "check"
        BY <1>1, <2>1
  <2>3. pc'["owner"] = pc["owner"] /\ pc'["writer"] = pc["writer"]
        BY <1>1, <2>1
  <2>4. ASSUME NEW c \in Clients
        PROVE  (pc'[c] = pc[c]) \/ (pc[c] = "wait" /\ pc'[c] = "woken")
        BY <1>1, <2>1
  <2> QED BY <1>1, <2>2, <2>3, <2>4 DEF CallbackMoves
<1>4. Go("reader", "check") \/ \E f, m : Deliver(f, m)
      BY DEF ReadCallback
<1>5. UNCHANGED <<flags, port, queue, reads, call, count, asked, result, device>>
      BY DEF ReadCallback
<1> QED BY <1>2, <1>3, <1>4, <1>5

(***************************************************************************)
(* Where the threads are                                                   *)
(***************************************************************************)

LEMMA ControlStep == ASSUME SessionInv, [Next]_vars PROVE Control'
<1> USE NameAssumption, NullAssumption
<1> USE DEF SessionInv, Control, PcOK, ThreadsOK, PortOK, HeldOK, Threads, Labels,
            OwnerLabels, WriterLabels, ReaderLabels, ClientLabels, Go, flags, port, queue
<1> portMutex \in {"owner", "writer", NULL}
    BY DEF TypeOK
<1>1. ASSUME NEW op \in OwnerCalls, OwnerCall(op) PROVE Control'
      BY <1>1 DEF OwnerCall
<1>2. CASE CloseStop
      BY <1>2 DEF CloseStop
<1>3. CASE CloseNotify
      BY <1>3 DEF CloseNotify
<1>4. CASE CloseJoinWriter
      BY <1>4 DEF CloseJoinWriter
<1>5. CASE ClosePort
      BY <1>5 DEF ClosePort
<1>6. CASE CloseJoinReader
      BY <1>6 DEF CloseJoinReader
<1>7. CASE OpenPort
      BY <1>7 DEF OpenPort
<1>8. CASE OpenFails
      BY <1>8 DEF OpenFails
<1>9. CASE OpenGivesUp
      BY <1>9 DEF OpenGivesUp
<1>10. CASE OpenStartWriter
      BY <1>10 DEF OpenStartWriter
<1>11. CASE OpenStartReader
      BY <1>11 DEF OpenStartReader
<1>12. CASE WriterIdle
      BY <1>12 DEF WriterIdle
<1>13. CASE WriterWait
      BY <1>13 DEF WriterWait
<1>14. CASE WriterExit
      BY <1>14 DEF WriterExit
<1>15. CASE WriterTake
      BY <1>15, QueueHead, RequestsAreMessages DEF WriterTake
<1>16. CASE WriterCancel
      BY <1>16 DEF WriterCancel
<1>17. CASE WriterWrite
      BY <1>17 DEF WriterWrite
<1>18. CASE ReaderTop
      BY <1>18 DEF ReaderTop
<1>19. CASE ReaderOutOfWork
      BY <1>19 DEF ReaderOutOfWork
<1>20. CASE ReadCallback
  <2>1. CallbackMoves /\ UNCHANGED <<m_bRunning, portOpen, portMutex, held>>
        BY <1>20, CallbackFrame
  <2>2. PcOK'
        BY <2>1 DEF CallbackMoves
  <2>3. ThreadsOK' /\ PortOK' /\ HeldOK'
        BY <2>1 DEF CallbackMoves
  <2> QED BY <2>2, <2>3
<1>21. CASE ReaderCheck
      BY <1>21 DEF ReaderCheck
<1>22. CASE ReaderInstall
      BY <1>22 DEF ReaderInstall
<1>23. ASSUME NEW c \in Clients, ClientCall(c) PROVE Control'
  <2>1. UNCHANGED <<m_bRunning, portOpen, portMutex, held>>
        BY <1>23 DEF ClientCall
  <2>2. PICK l \in {"to wait", "send"} : pc' = [pc EXCEPT ![c] = l]
        BY <1>23 DEF ClientCall
  <2> QED BY <2>1, <2>2
<1>24. ASSUME NEW c \in Clients, ClientSend(c) PROVE Control'
  <2>1. UNCHANGED <<m_bRunning, portOpen, portMutex, held>>
        BY <1>24 DEF ClientSend
  <2>2. PICK l \in {"to wait", "idle"} :
            pc' = [pc EXCEPT ![c] = l, !["writer"] = IF @ = "wait" THEN "lock" ELSE @]
        BY <1>24 DEF ClientSend
  <2> QED BY <2>1, <2>2
<1>25. ASSUME NEW c \in Clients, ClientWait(c) PROVE Control'
      BY <1>25 DEF ClientWait
<1>26. ASSUME NEW c \in Clients, ClientTimeout(c) PROVE Control'
      BY <1>26 DEF ClientTimeout
<1>27. ASSUME NEW c \in Clients, ClientWoken(c) PROVE Control'
      BY <1>27 DEF ClientWoken
<1>28. CASE ArduinoAnswer \/ ArduinoPublish \/ DataArrives
  <2>1. UNCHANGED <<m_bRunning, portOpen, portMutex, held, pc>>
        BY <1>28 DEF ArduinoAnswer, ArduinoPublish, DataArrives
  <2> QED BY <2>1
<1>29. CASE UNCHANGED vars
  <2>1. UNCHANGED <<m_bRunning, portOpen, portMutex, held, pc>>
        BY <1>29 DEF vars
  <2> QED BY <2>1
<1> HIDE DEF Control
<1> QED BY <1>1, <1>2, <1>3, <1>4, <1>5, <1>6, <1>7, <1>8, <1>9, <1>10, <1>11, <1>12, <1>13,
           <1>14, <1>15, <1>16, <1>17, <1>18, <1>19, <1>20, <1>21, <1>22, <1>23, <1>24, <1>25,
           <1>26, <1>27, <1>28, <1>29
        DEF Next, Owner, Writer, Reader, Client

(***************************************************************************)
(* Types                                                                   *)
(***************************************************************************)

FlagTypes ==
    /\ m_bRunning \in BOOLEAN /\ portOpen \in BOOLEAN
    /\ m_deviceName \in {"", "tty"}
    /\ portMutex \in {"owner", "writer", NULL}
    /\ queueMutex \in {"writer", NULL}
QueueTypes ==
    /\ m_writeQueue \in Seq(Requests) /\ held \in Requests \cup {NULL}
    /\ wire \in Seq(Requests) /\ answered \in 0 .. Len(wire)
StreamTypes ==
    /\ m_message \in Messages \cup {NULL, Mixed}
    /\ reads \in Nat
    /\ completions \in Seq(Parts \cup {NULL})
    /\ line \in Seq(Parts)
CallTypes ==
    /\ call \in [Threads -> OwnerCalls \cup ClientCalls \cup {NULL}]
    /\ m_responseHandlers \subseteq Requests
    /\ count \in [Threads -> 0 .. MaxOpens + MaxCalls]
    /\ asked \in [Clients -> FsmIDs \cup {NULL}]
    /\ response \in [Clients -> Messages \cup {NULL, Mixed}]
    /\ result \in [Clients -> BOOLEAN \cup {NULL}]

LEMMA TypeParts ==
    /\ TypeOK <=> FlagTypes /\ QueueTypes /\ StreamTypes /\ CallTypes
    /\ TypeOK' <=> FlagTypes' /\ QueueTypes' /\ StreamTypes' /\ CallTypes'
BY DEF TypeOK, FlagTypes, QueueTypes, StreamTypes, CallTypes

LEMMA QueueChanges ==
    ASSUME [Next]_vars
    PROVE  \/ OpenPort
           \/ WriterExit
           \/ WriterTake
           \/ WriterWrite
           \/ \E c \in Clients : ClientSend(c)
           \/ ArduinoAnswer
           \/ UNCHANGED <<m_writeQueue, held, wire, answered>>
<1> USE DEF vars, flags, port, queue, async, calls, device
<1>1. CASE Owner
      BY <1>1 DEF Owner, CloseStop, CloseNotify, CloseJoinWriter, ClosePort, CloseJoinReader,
         OpenFails, OpenGivesUp, OpenStartWriter, OpenStartReader
<1>2. CASE Writer
      BY <1>2 DEF Writer, WriterIdle, WriterWait, WriterCancel
<1>3. CASE Reader
      BY <1>3 DEF Reader, ReaderTop, ReaderOutOfWork, ReadCallback, ReaderCheck, ReaderInstall
<1>4. CASE \E c \in Clients : ClientCall(c) \/ Client(c)
      BY <1>4 DEF Client, ClientCall, ClientWait, ClientTimeout, ClientWoken
<1> QED BY <1>1, <1>2, <1>3, <1>4 DEF Next, OwnerCall, ArduinoPublish, DataArrives

LEMMA StreamChanges ==
    ASSUME [Next]_vars
    PROVE  \/ ClosePort
           \/ OpenPort
           \/ OpenStartReader
           \/ WriterCancel
           \/ ReadCallback
           \/ ReaderInstall
           \/ ArduinoAnswer
           \/ ArduinoPublish
           \/ DataArrives
           \/ UNCHANGED <<m_message, reads, completions, line>>
<1> USE DEF vars, flags, port, queue, async, calls, device
<1>1. CASE Owner
      BY <1>1 DEF Owner, CloseStop, CloseNotify, CloseJoinWriter, CloseJoinReader, OpenFails,
         OpenGivesUp, OpenStartWriter
<1>2. CASE Writer
      BY <1>2 DEF Writer, WriterIdle, WriterWait, WriterExit, WriterTake, WriterWrite
<1>3. CASE Reader
      BY <1>3 DEF Reader, ReaderTop, ReaderOutOfWork, ReaderCheck
<1>4. CASE \E c \in Clients : ClientCall(c) \/ Client(c)
      BY <1>4 DEF Client, ClientCall, ClientSend, ClientWait, ClientTimeout, ClientWoken
<1> QED BY <1>1, <1>2, <1>3, <1>4 DEF Next, OwnerCall

LEMMA CallChanges ==
    ASSUME [Next]_vars
    PROVE  \/ \E op \in OwnerCalls : OwnerCall(op)
           \/ ReadCallback
           \/ \E c \in Clients : ClientCall(c)
           \/ \E c \in Clients : ClientTimeout(c)
           \/ \E c \in Clients : ClientWoken(c)
           \/ UNCHANGED <<m_responseHandlers, call, count, asked, response, result>>
<1> USE DEF vars, flags, port, queue, async, calls, device
<1>1. CASE Owner
      BY <1>1 DEF Owner, CloseStop, CloseNotify, CloseJoinWriter, ClosePort, CloseJoinReader,
         OpenPort, OpenFails, OpenGivesUp, OpenStartWriter, OpenStartReader
<1>2. CASE Writer
      BY <1>2 DEF Writer, WriterIdle, WriterWait, WriterExit, WriterTake, WriterCancel,
         WriterWrite
<1>3. CASE Reader
      BY <1>3 DEF Reader, ReaderTop, ReaderOutOfWork, ReaderCheck, ReaderInstall
<1>4. CASE \E c \in Clients : ClientCall(c) \/ Client(c)
      BY <1>4 DEF Client, ClientSend, ClientWait
<1> QED BY <1>1, <1>2, <1>3, <1>4 DEF Next, ArduinoAnswer, ArduinoPublish, DataArrives

LEMMA FlagChanges ==
    ASSUME [Next]_vars
    PROVE  \/ CloseStop
           \/ CloseJoinWriter
           \/ ClosePort
           \/ CloseJoinReader
           \/ OpenPort
           \/ OpenGivesUp
           \/ OpenStartWriter
           \/ OpenStartReader
           \/ WriterIdle
           \/ WriterWait
           \/ WriterCancel
           \/ WriterWrite
           \/ UNCHANGED <<m_bRunning, portOpen, m_deviceName, portMutex, queueMutex>>
<1> USE DEF vars, flags, port, queue, async, calls, device
<1>1. CASE Owner
      BY <1>1 DEF Owner, CloseNotify, OpenFails
<1>2. CASE Writer
      BY <1>2 DEF Writer, WriterExit, WriterTake
<1>3. CASE Reader
      BY <1>3 DEF Reader, ReaderTop, ReaderOutOfWork, ReadCallback, ReaderCheck, ReaderInstall
<1>4. CASE \E c \in Clients : ClientCall(c) \/ Client(c)
      BY <1>4 DEF Client, ClientCall, ClientSend, ClientWait, ClientTimeout, ClientWoken
<1> QED BY <1>1, <1>2, <1>3, <1>4 DEF Next, OwnerCall, ArduinoAnswer, ArduinoPublish,
           DataArrives

\* What Send() queues is a request.
LEMMA SendsRequest ==
    ASSUME SessionInv, NEW c \in Clients, ClientSend(c)
    PROVE  [fsm |-> asked[c], client |-> c, n |-> count[c]] \in Requests
<1>1. pc[c] # "idle"
      BY DEF ClientSend
<1>2. asked[c] \in FsmIDs /\ count[c] \in 1 .. MaxCalls
      BY <1>1, CallAssumption DEF SessionInv, CallsOK
<1> QED BY <1>2 DEF Requests

LEMMA QueueTypesStep == ASSUME SessionInv, [Next]_vars PROVE QueueTypes'
<1> USE DEF QueueTypes
<1>0. QueueTypes
      BY TypeParts DEF SessionInv
<1>1. CASE OpenPort
  <2>1. UNCHANGED <<m_writeQueue, held, wire>> /\ answered' = Len(wire)
        BY <1>1 DEF OpenPort, queue
  <2> QED BY <1>0, <2>1, LenProperties
<1>2. CASE WriterExit
      BY <1>0, <1>2 DEF WriterExit, device
<1>3. CASE WriterTake
      BY <1>0, <1>3, QueueHead DEF WriterTake, device, SessionInv
<1>4. CASE WriterWrite
  <2>1. held \in Requests
        BY <1>0, <1>4 DEF WriterWrite, SessionInv, Control, HeldOK
  <2> QED BY <1>0, <1>4, <2>1 DEF WriterWrite
<1>5. ASSUME NEW c \in Clients, ClientSend(c) PROVE QueueTypes'
  <2>1. [fsm |-> asked[c], client |-> c, n |-> count[c]] \in Requests
        BY <1>5, SendsRequest
  <2>2. UNCHANGED <<held, wire, answered>>
        BY <1>5 DEF ClientSend, device
  <2>3. m_writeQueue' = Append(m_writeQueue, [fsm |-> asked[c], client |-> c, n |-> count[c]])
        BY <1>5 DEF ClientSend
  <2> QED BY <1>0, <2>1, <2>2, <2>3, AppendProperties
<1>6. CASE ArduinoAnswer
      BY <1>0, <1>6 DEF ArduinoAnswer, queue
<1>7. CASE UNCHANGED <<m_writeQueue, held, wire, answered>>
      BY <1>0, <1>7
<1> QED BY <1>1, <1>2, <1>3, <1>4, <1>5, <1>6, <1>7, QueueChanges

LEMMA CancelReadsTypes ==
    ASSUME StreamTypes, CancelReads
    PROVE  reads' = 0 /\ completions' \in Seq(Parts \cup {NULL})
BY DEF StreamTypes, CancelReads

LEMMA SplitType == ASSUME NEW m \in Messages PROVE Split(m) \in Seq(Parts)
BY DEF Split, Parts

\* Which message a completed read leaves, and which it finishes.
LEMMA AdvanceType ==
    ASSUME m_message \in Messages \cup {NULL, Mixed}, NEW part \in Parts \cup {NULL},
           NEW next \in Advance(part)
    PROVE  /\ next.left \in Messages \cup {NULL, Mixed}
           /\ next.done \in Messages \cup {NULL, Mixed}
<1>1. CASE part = NULL
      BY <1>1 DEF Advance
<1>2. CASE part # NULL /\ m_message # NULL
      BY <1>2 DEF Advance
<1>3. CASE part # NULL /\ m_message = NULL
  <2>1. part.msg \in Messages
        BY <1>3 DEF Parts
  <2> QED BY <1>3, <2>1 DEF Advance
<1> QED BY <1>1, <1>2, <1>3

LEMMA StreamTypesStep == ASSUME SessionInv, [Next]_vars PROVE StreamTypes'
<1> USE DEF StreamTypes
<1>0. StreamTypes /\ QueueTypes
      BY TypeParts DEF SessionInv
<1>1. CASE ClosePort
  <2>1. UNCHANGED <<m_message, line>> /\ (CancelReads \/ UNCHANGED <<reads, completions>>)
        BY <1>1 DEF ClosePort, device
  <2> QED BY <1>0, <2>1, CancelReadsTypes
<1>2. CASE OpenPort
  <2>1. UNCHANGED <<m_message, reads, completions>> /\ line' = <<>>
        BY <1>2 DEF OpenPort, async
  <2> QED BY <1>0, <2>1
<1>3. CASE OpenStartReader
  <2>1. UNCHANGED <<m_message, completions, line>> /\ reads' = reads + 1
        BY <1>3 DEF OpenStartReader, device
  <2> QED BY <1>0, <2>1
<1>4. CASE WriterCancel
  <2>1. UNCHANGED <<m_message, line>> /\ CancelReads
        BY <1>4 DEF WriterCancel, device
  <2> QED BY <1>0, <2>1, CancelReadsTypes
<1>5. CASE ReadCallback
  <2>1. Head(completions) \in Parts \cup {NULL} /\ completions' \in Seq(Parts \cup {NULL})
        BY <1>0, <1>5 DEF ReadCallback
  <2>2. m_message' \in Messages \cup {NULL, Mixed}
        BY <1>0, <1>5, <2>1, AdvanceType DEF ReadCallback
  <2> QED BY <1>0, <1>5, <2>1, <2>2 DEF ReadCallback, device
<1>6. CASE ReaderInstall
  <2>1. UNCHANGED <<m_message, line>>
        BY <1>6 DEF ReaderInstall, device
  <2>2. \/ reads' = reads + 1 /\ completions' = completions
        \/ reads' = reads /\ completions' = Append(completions, NULL)
        BY <1>6 DEF ReaderInstall
  <2>3. NULL \in Parts \cup {NULL}
        OBVIOUS
  <2>4. reads' \in Nat
        BY <1>0, <2>2
  <2>5. completions' \in Seq(Parts \cup {NULL})
        BY <1>0, <2>2, <2>3, AppendProperties
  <2> QED BY <1>0, <2>1, <2>4, <2>5
<1>7. CASE ArduinoAnswer
  <2>1. wire[answered + 1] \in Messages
        BY <1>0, <1>7, RequestsAreMessages DEF ArduinoAnswer, QueueTypes
  <2>2. UNCHANGED <<m_message, reads, completions>>
        BY <1>7 DEF ArduinoAnswer, async
  <2>3. line' \in {line, line \o Split(wire[answered + 1])}
        BY <1>7 DEF ArduinoAnswer
  <2> QED BY <1>0, <2>1, <2>2, <2>3, SplitType, ConcatProperties
<1>8. CASE ArduinoPublish
  <2>1. \A f \in FsmIDs : Published(f) \in Messages
        BY DEF Messages
  <2> QED BY <1>0, <1>8, <2>1, SplitType, CallAssumption DEF ArduinoPublish, async
<1>9. CASE DataArrives
      BY <1>0, <1>9 DEF DataArrives
<1>10. CASE UNCHANGED <<m_message, reads, completions, line>>
      BY <1>0, <1>10
<1> QED BY <1>1, <1>2, <1>3, <1>4, <1>5, <1>6, <1>7, <1>8, <1>9, <1>10, StreamChanges

LEMMA CallTypesStep == ASSUME SessionInv, [Next]_vars PROVE CallTypes'
<1> USE DEF CallTypes
<1>0. CallTypes
      BY TypeParts DEF SessionInv
<1>1. ASSUME NEW op \in OwnerCalls, OwnerCall(op) PROVE CallTypes'
      BY <1>0, <1>1, CallAssumption DEF OwnerCall, Threads
<1>2. CASE ReadCallback
      <2>1. UNCHANGED <<call, count, asked, result>>
        BY <1>2, CallbackFrame DEF SessionInv, Control
      <2>2. CASE UNCHANGED <<m_responseHandlers, response>>
        BY <1>0, <2>1, <2>2
      <2>3. ASSUME NEW part \in Parts \cup {NULL}, NEW next \in Advance(part), next.done # NULL,
                   NEW f, Deliver(f, next.done)
            PROVE  CallTypes'
        <3>1. next.done \in Messages \cup {NULL, Mixed}
              BY <2>3, AdvanceType DEF SessionInv, TypeOK
        <3> QED BY <1>0, <2>1, <2>3, <3>1 DEF Deliver
      <2>4. Head(completions) \in Parts \cup {NULL}
        BY <1>2, HeadTailProperties DEF ReadCallback, SessionInv, TypeOK
      <2> QED BY <1>2, <2>2, <2>3, <2>4 DEF ReadCallback
<1>3. ASSUME NEW c \in Clients, ClientCall(c) PROVE CallTypes'
  <2>1. count[c] + 1 \in 1 .. MaxCalls /\ count' = [count EXCEPT ![c] = count[c] + 1]
    <3>1. count[c] \in 0 .. MaxCalls /\ count[c] < MaxCalls
          BY <1>3 DEF ClientCall, SessionInv, CallsOK
    <3>2. count' = [count EXCEPT ![c] = count[c] + 1]
          BY <1>3 DEF ClientCall
    <3> QED BY <3>1, <3>2, CallAssumption
  <2>2. count'[c] = count[c] + 1 /\ count' \in [Threads -> 0 .. MaxOpens + MaxCalls]
        BY <1>0, <2>1, CallAssumption DEF Threads
  <2>3. \A f \in FsmIDs : [fsm |-> f, client |-> c, n |-> count'[c]] \in Requests
        BY <2>1, <2>2 DEF Requests
  <2>4. call' \in [Threads -> OwnerCalls \cup ClientCalls \cup {NULL}]
        BY <1>0, <1>3 DEF ClientCall, Threads
  <2>5. m_responseHandlers' \subseteq Requests
        BY <1>0, <1>3, <2>3 DEF ClientCall
  <2>6. asked' \in [Clients -> FsmIDs \cup {NULL}]
        BY <1>0, <1>3 DEF ClientCall
  <2>7. /\ response' \in [Clients -> Messages \cup {NULL, Mixed}]
        /\ result' \in [Clients -> BOOLEAN \cup {NULL}]
        BY <1>0, <1>3 DEF ClientCall
  <2> QED BY <2>2, <2>4, <2>5, <2>6, <2>7
<1>4. ASSUME NEW c \in Clients, ClientTimeout(c) \/ ClientWoken(c) PROVE CallTypes'
      BY <1>0, <1>4 DEF ClientTimeout, ClientWoken
<1>5. CASE UNCHANGED <<m_responseHandlers, call, count, asked, response, result>>
      BY <1>0, <1>5
<1> QED BY <1>1, <1>2, <1>3, <1>4, <1>5, CallChanges

LEMMA FlagTypesStep == ASSUME SessionInv, [Next]_vars PROVE FlagTypes'
<1> USE DEF FlagTypes
<1>0. FlagTypes
      BY TypeParts DEF SessionInv
<1>1. CASE CloseStop \/ CloseJoinWriter \/ ClosePort \/ CloseJoinReader \/ OpenPort \/ OpenGivesUp
      BY <1>0, <1>1 DEF CloseStop, CloseJoinWriter, ClosePort, CloseJoinReader, OpenPort,
         OpenGivesUp,
                        flags, port, queue
<1>2. CASE OpenStartWriter \/ OpenStartReader
      BY <1>0, <1>2 DEF OpenStartWriter, OpenStartReader, Device, flags, port, queue
<1>3. CASE WriterIdle \/ WriterWait \/ WriterCancel \/ WriterWrite
      BY <1>0, <1>3 DEF WriterIdle, WriterWait, WriterCancel, WriterWrite, flags, port, queue
<1>4. CASE UNCHANGED <<m_bRunning, portOpen, m_deviceName, portMutex, queueMutex>>
      BY <1>0, <1>4
<1> QED BY <1>1, <1>2, <1>3, <1>4, FlagChanges

\* A client that is in a call was in it, or has just begun it.
LEMMA OnlyCallsBegin ==
    ASSUME SessionInv, [Next]_vars, NEW c \in Clients, pc'[c] # "idle"
    PROVE  pc[c] # "idle" \/ ClientCall(c)
<1> USE NameAssumption DEF SessionInv, Control, PcOK, Threads, Go
<1>1. ASSUME NEW op \in OwnerCalls, OwnerCall(op) PROVE pc[c] # "idle"
      BY <1>1 DEF OwnerCall
<1>2. CASE Owner
      BY <1>2 DEF Owner, CloseStop, CloseNotify, CloseJoinWriter, ClosePort, CloseJoinReader,
                  OpenPort, OpenFails, OpenGivesUp, OpenStartWriter, OpenStartReader
<1>3. CASE Writer
      BY <1>3 DEF Writer, WriterIdle, WriterWait, WriterExit, WriterTake, WriterCancel,
         WriterWrite
<1>4. CASE ReadCallback
      BY <1>4, CallbackFrame DEF CallbackMoves
<1>5. CASE ReaderTop \/ ReaderOutOfWork \/ ReaderCheck \/ ReaderInstall
      BY <1>5 DEF ReaderTop, ReaderOutOfWork, ReaderCheck, ReaderInstall
<1>6. ASSUME NEW d \in Clients, ClientCall(d), c # d PROVE pc[c] # "idle"
      BY <1>6 DEF ClientCall
<1>7. ASSUME NEW d \in Clients, Client(d) PROVE pc[c] # "idle"
      BY <1>7 DEF Client, ClientSend, ClientWait, ClientTimeout, ClientWoken
<1>8. CASE ArduinoAnswer \/ ArduinoPublish \/ DataArrives \/ UNCHANGED vars
      BY <1>8 DEF ArduinoAnswer, ArduinoPublish, DataArrives, vars
<1> QED BY <1>1, <1>2, <1>3, <1>4, <1>5, <1>6, <1>7, <1>8 DEF Next, Reader

\* What beginning a call does to the caller's own data, and to nobody else's.
LEMMA CallBegins ==
    ASSUME SessionInv, NEW c \in Clients, ClientCall(c)
    PROVE  /\ count[c] < MaxCalls /\ count'[c] = count[c] + 1
           /\ asked'[c] \in FsmIDs /\ response'[c] = NULL /\ result'[c] = NULL
           /\ \A d \in Clients \ {c} :
                  /\ count'[d] = count[d] /\ asked'[d] = asked[d]
                  /\ response'[d] = response[d] /\ result'[d] = result[d]
           /\ \A h \in m_responseHandlers' :
                  \/ h \in m_responseHandlers
                  \/ h.client = c /\ h.n = count'[c] /\ h.fsm = asked'[c]
<1>0. /\ count \in [Threads -> 0 .. MaxOpens + MaxCalls]
      /\ asked \in [Clients -> FsmIDs \cup {NULL}]
      /\ response \in [Clients -> Messages \cup {NULL, Mixed}]
      /\ result \in [Clients -> BOOLEAN \cup {NULL}]
      BY DEF SessionInv, TypeOK
<1>1. /\ count[c] < MaxCalls /\ count' = [count EXCEPT ![c] = count[c] + 1]
      /\ response' = [response EXCEPT ![c] = NULL] /\ result' = [result EXCEPT ![c] = NULL]
      BY DEF ClientCall
<1>2. PICK f \in FsmIDs :
          /\ asked' = [asked EXCEPT ![c] = f]
          /\ \/ m_responseHandlers' = m_responseHandlers
             \/ m_responseHandlers' =
                    m_responseHandlers \cup {[fsm |-> f, client |-> c, n |-> count'[c]]}
      BY DEF ClientCall
<1>3. /\ count'[c] = count[c] + 1 /\ asked'[c] = f
      /\ \A d \in Clients \ {c} : count'[d] = count[d] /\ asked'[d] = asked[d]
      BY <1>0, <1>1, <1>2 DEF Threads
<1>4. /\ response'[c] = NULL /\ result'[c] = NULL
      /\ \A d \in Clients \ {c} : response'[d] = response[d] /\ result'[d] = result[d]
      BY <1>0, <1>1
<1>5. \A h \in m_responseHandlers' :
          \/ h \in m_responseHandlers
          \/ h.client = c /\ h.n = count'[c] /\ h.fsm = asked'[c]
      BY <1>2, <1>3
<1> QED BY <1>1, <1>2, <1>3, <1>4, <1>5

LEMMA CallsStep == ASSUME SessionInv, [Next]_vars PROVE CallsOK'
<1> SUFFICES ASSUME NEW c \in Clients
             PROVE  /\ count'[c] \in 0 .. MaxCalls
                    /\ pc'[c] # "idle" => count'[c] > 0 /\ asked'[c] \in FsmIDs
    BY DEF CallsOK
<1>0. /\ count[c] \in 0 .. MaxCalls
      /\ pc[c] # "idle" => count[c] > 0 /\ asked[c] \in FsmIDs
      BY DEF SessionInv, CallsOK
<1>1. CASE ClientCall(c)
      BY <1>0, <1>1, CallBegins, CallAssumption
<1>2. CASE ~ClientCall(c)
  <2>1. count'[c] = count[c] /\ asked'[c] = asked[c]
    <3>0. count \in [Threads -> 0 .. MaxOpens + MaxCalls]
          BY DEF SessionInv, TypeOK
    <3>1. ASSUME NEW op \in OwnerCalls, OwnerCall(op) PROVE UNCHANGED <<count[c], asked[c]>>
          BY <3>0, <3>1, NameAssumption DEF OwnerCall, Threads
    <3>2. CASE ReadCallback
          BY <3>2, CallbackFrame DEF SessionInv, Control
    <3>3. ASSUME NEW d \in Clients, ClientCall(d) PROVE UNCHANGED <<count[c], asked[c]>>
          BY <1>2, <3>3, CallBegins
    <3>4. ASSUME NEW d \in Clients, ClientTimeout(d) \/ ClientWoken(d)
          PROVE  UNCHANGED <<count[c], asked[c]>>
          BY <3>4 DEF ClientTimeout, ClientWoken
    <3> QED BY <3>1, <3>2, <3>3, <3>4, CallChanges
  <2> QED BY <1>0, <1>2, <2>1, OnlyCallsBegin
<1> QED BY <1>1, <1>2

LEMMA NoCallsYet == 0 \in 0 .. MaxOpens + MaxCalls
BY CallAssumption

LEMMA SessionInit == Init => SessionInv
<1> SUFFICES ASSUME Init PROVE SessionInv
    OBVIOUS
<1> USE DEF Init
<1>1. TypeOK
  <2>1. FlagTypes
        BY DEF FlagTypes
  <2>2. QueueTypes /\ StreamTypes
    <3>1. Len(<<>>) = 0 /\ \A S : <<>> \in Seq(S)
          BY EmptySeq
    <3>2. held = NULL /\ m_message = NULL /\ reads = 0 /\ answered = 0
          OBVIOUS
    <3>3. m_writeQueue = <<>> /\ completions = <<>> /\ line = <<>> /\ wire = <<>>
          OBVIOUS
    <3> HIDE DEF Init
    <3> QED BY <3>1, <3>2, <3>3 DEF QueueTypes, StreamTypes
  <2>3. CallTypes
      BY NoCallsYet DEF CallTypes
  <2> QED BY <2>1, <2>2, <2>3, TypeParts
<1>2. PcOK
      BY NameAssumption
      DEF PcOK, Threads, Labels, OwnerLabels, WriterLabels, ReaderLabels, ClientLabels
<1>3. ThreadsOK /\ PortOK /\ HeldOK
      BY NullAssumption DEF ThreadsOK, PortOK, HeldOK, Threads
<1>4. ASSUME NEW c \in Clients PROVE pc[c] = "idle" /\ count[c] = 0
      BY NameAssumption DEF Threads
<1> HIDE DEF Init
<1>5. CallsOK
      BY <1>4, CallAssumption DEF CallsOK
<1> QED BY <1>1, <1>2, <1>3, <1>5 DEF SessionInv, Control

THEOREM SessionInvHolds == Spec => []SessionInv
<1>1. ASSUME SessionInv, [Next]_vars PROVE SessionInv'
      BY <1>1, TypeParts, FlagTypesStep, QueueTypesStep, StreamTypesStep, CallTypesStep,
         ControlStep,
         CallsStep DEF SessionInv
<1> QED BY SessionInit, <1>1, PTL DEF Spec
(***************************************************************************)
(* Writes                                                                  *)
(***************************************************************************)

\* Types are respected, whatever is called and however often.
THEOREM TypesHold == Spec => []TypeOK
<1>1. SessionInv => TypeOK
      BY DEF SessionInv
<1> QED BY SessionInvHolds, <1>1, PTL

\* The write thread never writes to a closed port, because Close() joins it
\* before it closes the port and Open() starts it after opening.
THEOREM WritesToOpenPortHolds == Spec => []WritesToOpenPort
<1>1. SessionInv => WritesToOpenPort
      BY DEF SessionInv, Control, PortOK, WritesToOpenPort
<1> QED BY SessionInvHolds, <1>1, PTL

InHand == IF held = NULL THEN <<>> ELSE <<held>>
Unsent == InHand \o m_writeQueue

LEMMA OutboxChanges ==
    ASSUME [Next]_vars
    PROVE  \/ CloseStop
           \/ OpenStartWriter
           \/ WriterExit
           \/ WriterTake
           \/ WriterWrite
           \/ \E c \in Clients : ClientSend(c)
           \/ UNCHANGED <<m_writeQueue, held, wire, m_bRunning>>
<1> USE DEF vars, flags, port, queue, async, calls, device
<1>1. CASE Owner
      BY <1>1 DEF Owner, CloseNotify, CloseJoinWriter, ClosePort, CloseJoinReader, OpenPort,
         OpenFails, OpenGivesUp, OpenStartReader
<1>2. CASE Writer
      BY <1>2 DEF Writer, WriterIdle, WriterWait, WriterCancel
<1>3. CASE Reader
      BY <1>3 DEF Reader, ReaderTop, ReaderOutOfWork, ReadCallback, ReaderCheck, ReaderInstall
<1>4. CASE \E c \in Clients : ClientCall(c)
      BY <1>4 DEF ClientCall
<1>5. CASE \E c \in Clients : Client(c)
      BY <1>5 DEF Client, ClientWait, ClientTimeout, ClientWoken
<1> QED BY <1>1, <1>2, <1>3, <1>4, <1>5 DEF Next, OwnerCall, ArduinoAnswer, ArduinoPublish,
           DataArrives

LEMMA UnsentTypes ==
    ASSUME QueueTypes
    PROVE  InHand \in Seq(Requests) /\ Unsent \in Seq(Requests)
BY ConcatProperties DEF QueueTypes, InHand, Unsent

\* Taking a message off the queue leaves what is unsent as it is.
LEMMA TakeIsStutter ==
    ASSUME SessionInv, WriterTake PROVE UNCHANGED <<Unsent, wire, m_bRunning>>
<1>1. held = NULL
      BY DEF SessionInv, Control, HeldOK, WriterTake
<1>2. m_writeQueue \in Seq(Requests) /\ m_writeQueue # <<>>
      BY DEF SessionInv, TypeOK, WriterTake
<1>3. held' = Head(m_writeQueue) /\ m_writeQueue' = Tail(m_writeQueue)
      BY DEF WriterTake
<1>4. held' # NULL
      BY <1>2, <1>3, HeadTailProperties, RequestsAreMessages
<1>5. <<Head(m_writeQueue)>> \o Tail(m_writeQueue) = m_writeQueue
      BY <1>2
<1>6. <<>> \o m_writeQueue = m_writeQueue
      BY <1>2
<1>7. Unsent' = Unsent
      BY <1>1, <1>3, <1>4, <1>5, <1>6 DEF Unsent, InHand
<1>8. UNCHANGED <<wire, m_bRunning>>
      BY DEF WriterTake, device, flags
<1> QED BY <1>7, <1>8

LEMMA WriteIsTransmit == ASSUME SessionInv, WriterWrite PROVE Outgoing!Transmit
<1>1. held # NULL /\ held \in Requests /\ m_writeQueue \in Seq(Requests)
      BY DEF SessionInv, Control, HeldOK, TypeOK, WriterWrite
<1>2. /\ held' = NULL /\ m_writeQueue' = m_writeQueue
      /\ wire' = Append(wire, held) /\ m_bRunning' = m_bRunning
      BY DEF WriterWrite, flags
<1>3. Unsent = <<held>> \o m_writeQueue
      BY <1>1 DEF Unsent, InHand
<1>4. Unsent' = m_writeQueue
      BY <1>1, <1>2 DEF Unsent, InHand
<1>5. Head(<<held>> \o m_writeQueue) = held /\ Tail(<<held>> \o m_writeQueue) = m_writeQueue
      /\ <<held>> \o m_writeQueue # <<>>
      BY <1>1
<1> QED BY <1>2, <1>3, <1>4, <1>5 DEF Outgoing!Transmit, Unsent, InHand

LEMMA ExitIsDiscard == ASSUME SessionInv, WriterExit PROVE Outgoing!Discard
<1>1. held = NULL /\ held' = NULL
      BY DEF SessionInv, Control, HeldOK, WriterExit
<1>2. m_writeQueue' = <<>> /\ wire' = wire /\ m_bRunning' = m_bRunning /\ ~m_bRunning
      BY DEF WriterExit, device, flags
<1>3. Unsent' = <<>>
      BY <1>1, <1>2, EmptySeq DEF Unsent, InHand
<1> QED BY <1>2, <1>3 DEF Outgoing!Discard, Unsent, InHand

LEMMA SendIsAccept ==
    ASSUME SessionInv, NEW c \in Clients, ClientSend(c)
    PROVE  \E m \in Requests : Outgoing!Accept(m)
<1> DEFINE m == [fsm |-> asked[c], client |-> c, n |-> count[c]]
<1>1. m \in Requests
      BY SendsRequest
<1>2. m_writeQueue' = Append(m_writeQueue, m)
      BY DEF ClientSend
<1>3. held' = held /\ wire' = wire /\ m_bRunning' = m_bRunning
      BY DEF ClientSend, device, flags
<1>4. QueueTypes
      BY TypeParts DEF SessionInv
<1> HIDE DEF m
<1>5. InHand \o Append(m_writeQueue, m) = Append(InHand \o m_writeQueue, m)
      BY <1>1, <1>4, UnsentTypes DEF QueueTypes
<1>6. Unsent' = Append(Unsent, m)
      BY <1>2, <1>3, <1>5 DEF Unsent, InHand
<1>7. Outgoing!Accept(m)
      BY <1>3, <1>6 DEF Outgoing!Accept, Unsent, InHand
<1> QED BY <1>1, <1>7

\* Send() accepts, WriterWrite transmits the oldest, WriterExit discards, and no
\* other step touches what is unsent or what has been written.
THEOREM OutgoingRefines == Spec => OutgoingSpec
<1>1. ASSUME Init PROVE Outgoing!Init
  <2>1. held = NULL /\ m_writeQueue = <<>> /\ wire = <<>> /\ m_bRunning = FALSE
        BY <1>1 DEF Init
  <2> QED BY <2>1, EmptySeq DEF Outgoing!Init
<1>2. ASSUME SessionInv, [Next]_vars
      PROVE  Outgoing!Next \/ UNCHANGED <<Unsent, wire, ~m_bRunning>>
  <2>1. CASE CloseStop \/ OpenStartWriter
    <3>1. UNCHANGED <<held, m_writeQueue, wire>> /\ m_bRunning' \in BOOLEAN
          BY <2>1 DEF CloseStop, OpenStartWriter, queue, device
    <3>2. CASE m_bRunning' = m_bRunning
          BY <3>1, <3>2 DEF Unsent, InHand
    <3>3. CASE m_bRunning' = ~m_bRunning
          BY <3>1, <3>3 DEF Unsent, InHand, Outgoing!Next, Outgoing!OpenOrClose
    <3> QED BY <1>2, <3>1, <3>2, <3>3 DEF SessionInv, TypeOK
  <2>2. CASE WriterExit
        BY <1>2, <2>2, ExitIsDiscard DEF Outgoing!Next
  <2>3. CASE WriterTake
        BY <1>2, <2>3, TakeIsStutter
  <2>4. CASE WriterWrite
        BY <1>2, <2>4, WriteIsTransmit DEF Outgoing!Next
  <2>5. ASSUME NEW c \in Clients, ClientSend(c) PROVE Outgoing!Next
        BY <1>2, <2>5, SendIsAccept DEF Outgoing!Next
  <2>6. CASE UNCHANGED <<m_writeQueue, held, wire, m_bRunning>>
        BY <2>6 DEF Unsent, InHand
  <2> QED BY <1>2, <2>1, <2>2, <2>3, <2>4, <2>5, <2>6, OutboxChanges
<1>3. ASSUME SessionInv, [Next]_vars
      PROVE  [Outgoing!Next]_<<Unsent, wire, ~m_bRunning>>
      BY <1>2, <1>3
<1>4. Init /\ []SessionInv /\ [][Next]_vars => Outgoing!Spec
      BY <1>1, <1>3, PTL DEF Outgoing!Spec, Unsent, InHand
<1> QED BY SessionInvHolds, <1>4 DEF Spec, OutgoingSpec

(***************************************************************************)
(* Reads                                                                   *)
(***************************************************************************)

\* No completion of an earlier session is waiting when the port is opened.
NothingLeftOver == pc["owner"] = "open" => completions = <<>>

\* The reads the port and the read thread have between them.
Callbacks == reads + Len(completions)

\* A read is outstanding on an open port only, and none when a session begins.
ReadsOK ==
    /\ ~portOpen => reads = 0
    /\ pc["owner"] \in {"start", "start reader"} => Callbacks = 0
    /\ pc["reader"] \in {"check", "lock port"} => Callbacks = 0
    /\ Callbacks <= 1

\* Cancelling a read completes it.
LEMMA CancelKeepsTotal ==
    ASSUME StreamTypes, CancelReads
    PROVE  Callbacks' = Callbacks /\ reads' = 0
<1>1. reads \in Nat /\ completions \in Seq(Parts \cup {NULL})
      BY DEF StreamTypes
<1>2. [k \in 1 .. reads |-> NULL] \in Seq(Parts \cup {NULL})
      BY <1>1
<1>3. Len([k \in 1 .. reads |-> NULL]) = reads
      BY <1>1
<1>4. Len(completions') = Len(completions) + reads /\ reads' = 0
      BY <1>1, <1>2, <1>3, ConcatProperties DEF CancelReads
<1> QED BY <1>1, <1>4, LenProperties DEF Callbacks

LEMMA CallbacksType ==
    ASSUME StreamTypes
    PROVE  /\ Callbacks \in Nat /\ reads \in Nat /\ reads <= Callbacks
           /\ (Callbacks = 0) <=> (reads = 0 /\ completions = <<>>)
<1>1. reads \in Nat /\ completions \in Seq(Parts \cup {NULL})
      BY DEF StreamTypes
<1>2. Len(completions) \in Nat /\ (Len(completions) = 0 <=> completions = <<>>)
      BY <1>1, EmptySeq
<1> QED BY <1>1, <1>2 DEF Callbacks

LEMMA StreamLengths ==
    ASSUME SessionInv, [Next]_vars
    PROVE  /\ reads \in Nat /\ reads' \in Nat
           /\ Len(completions) \in Nat /\ Len(completions') \in Nat
           /\ Callbacks \in Nat /\ Callbacks' \in Nat
<1>1. StreamTypes /\ StreamTypes'
      BY TypeParts, StreamTypesStep DEF SessionInv
<1>2. reads \in Nat /\ reads' \in Nat
      BY <1>1 DEF StreamTypes
<1>3. Len(completions) \in Nat /\ Len(completions') \in Nat
      BY <1>1, LenProperties DEF StreamTypes
<1> QED BY <1>2, <1>3 DEF Callbacks

\* Closing or cancelling moves the owner or the write thread only.
LEMMA PortMoves ==
    ASSUME SessionInv, ClosePort \/ WriterCancel
    PROVE  /\ pc'["reader"] = pc["reader"]
           /\ pc'["owner"] = "join reader" \/ pc'["owner"] = pc["owner"]
BY DEF ClosePort, WriterCancel, Go, SessionInv, Control, PcOK, Threads

\* The steps that change what is outstanding or completed.
LEMMA CancelKeepsReads ==
    ASSUME SessionInv, ReadsOK, [Next]_vars, ClosePort \/ WriterCancel PROVE ReadsOK'
<1>1. CASE CancelReads
  <2>1. Callbacks' = Callbacks /\ reads' = 0
        BY <1>1, CancelKeepsTotal, TypeParts DEF SessionInv
  <2> QED BY <2>1, PortMoves DEF ReadsOK
<1>2. CASE ~CancelReads
  <2>1. ~portOpen /\ UNCHANGED <<reads, completions>>
        BY <1>2 DEF ClosePort, WriterCancel
  <2>2. Callbacks' = Callbacks /\ reads' = 0
        BY <2>1 DEF Callbacks, ReadsOK
  <2> QED BY <2>2, PortMoves DEF ReadsOK
<1> QED BY <1>1, <1>2

LEMMA StartKeepsReads ==
    ASSUME SessionInv, ReadsOK, [Next]_vars, OpenStartReader PROVE ReadsOK'
<1>1. pc["owner"] = "start reader" /\ pc'["owner"] = "idle" /\ pc'["reader"] = "top"
      BY DEF OpenStartReader, SessionInv, Control, PcOK, Threads
<1>2. portOpen'
      BY <1>1 DEF OpenStartReader, SessionInv, Control, PortOK
<1>3. reads' = reads + 1 /\ completions' = completions
      BY DEF OpenStartReader
<1>4. Callbacks = 0
      BY <1>1 DEF ReadsOK
<1>5. Callbacks' = Callbacks + 1
      BY <1>3, StreamLengths DEF Callbacks
<1>6. Callbacks' <= 1
      BY <1>4, <1>5
<1> QED BY <1>1, <1>2, <1>6 DEF ReadsOK

LEMMA CallbackKeepsReads ==
    ASSUME SessionInv, ReadsOK, [Next]_vars, ReadCallback PROVE ReadsOK'
<1>1. CallbackMoves /\ reads' = reads /\ portOpen' = portOpen
      BY CallbackFrame DEF SessionInv, Control, port
<1>2. completions # <<>> /\ completions' = Tail(completions)
      BY DEF ReadCallback
<1>3. Len(completions') = Len(completions) - 1
      BY <1>2, HeadTailProperties DEF SessionInv, TypeOK
<1>4. Callbacks' = Callbacks - 1 /\ Callbacks' \in Nat
      BY <1>1, <1>3, StreamLengths DEF Callbacks
<1>5. Callbacks <= 1 /\ Callbacks \in Nat
      BY StreamLengths DEF ReadsOK
<1>6. Callbacks' = 0
      BY <1>4, <1>5
<1>7. pc'["owner"] = pc["owner"] /\ (~portOpen' => reads' = 0)
      BY <1>1 DEF CallbackMoves, ReadsOK
<1>8. Callbacks' <= 1
      BY <1>6
<1> QED BY <1>6, <1>7, <1>8 DEF ReadsOK

LEMMA InstallKeepsReads ==
    ASSUME SessionInv, ReadsOK, [Next]_vars, ReaderInstall PROVE ReadsOK'
<1>1. pc["reader"] = "lock port" /\ portOpen' = portOpen
      BY DEF ReaderInstall, port
<1>0. pc'["reader"] = "run" /\ pc'["owner"] = pc["owner"]
      BY DEF ReaderInstall, Go, SessionInv, Control, PcOK, Threads
<1>2. pc["owner"] \notin {"start", "start reader"}
      BY <1>1 DEF SessionInv, Control, ThreadsOK
<1>3. Callbacks' = Callbacks + 1 /\ (~portOpen => reads' = reads)
  <2>1. CASE portOpen
    <3>1. reads' = reads + 1 /\ completions' = completions
          BY <2>1 DEF ReaderInstall
    <3> QED BY <2>1, <3>1, StreamLengths DEF Callbacks
  <2>2. CASE ~portOpen
    <3>1. reads' = reads /\ completions' = Append(completions, NULL)
          BY <2>2 DEF ReaderInstall
    <3>2. completions \in Seq(Parts \cup {NULL}) /\ NULL \in Parts \cup {NULL}
          BY DEF SessionInv, TypeOK
    <3>3. Len(completions') = Len(completions) + 1
          BY <3>1, <3>2, AppendProperties
    <3> QED BY <3>1, <3>3, StreamLengths DEF Callbacks
  <2> QED BY <2>1, <2>2
<1>4. Callbacks = 0
      BY <1>1 DEF ReadsOK
<1>5. Callbacks' <= 1
      BY <1>3, <1>4
<1> QED BY <1>0, <1>1, <1>2, <1>3, <1>5 DEF ReadsOK

LEMMA ArrivalKeepsReads ==
    ASSUME SessionInv, ReadsOK, [Next]_vars, DataArrives PROVE ReadsOK'
<1>1. reads' = reads - 1 /\ reads > 0 /\ portOpen /\ portOpen' = portOpen /\ pc' = pc
      BY DEF DataArrives, port
<1>2. Callbacks' = Callbacks
  <2>1. completions' = Append(completions, Head(line)) /\ Head(line) \in Parts
        BY HeadTailProperties DEF DataArrives, SessionInv, TypeOK
  <2>2. completions \in Seq(Parts \cup {NULL}) /\ Head(line) \in Parts \cup {NULL}
        BY <2>1 DEF SessionInv, TypeOK
  <2>3. Len(completions') = Len(completions) + 1
        BY <2>1, <2>2, AppendProperties
  <2> QED BY <1>1, <2>3, StreamLengths DEF Callbacks
<1> QED BY <1>1, <1>2 DEF ReadsOK

LEMMA ReadsStep ==
    ASSUME SessionInv, NothingLeftOver, ReadsOK, [Next]_vars PROVE ReadsOK'
<1> USE NameAssumption, NullAssumption
<1> reads' = reads /\ completions' = completions => Callbacks' = Callbacks
    BY DEF Callbacks
<1> StreamTypes
    BY TypeParts DEF SessionInv
<1> portMutex \in {"owner", "writer", NULL}
    BY DEF SessionInv, TypeOK
<1> USE DEF SessionInv, Control, PcOK, ThreadsOK, PortOK, ReadsOK,
            NothingLeftOver, Threads, Go, flags, port, queue, async, calls, device
<1>1. ASSUME NEW op \in OwnerCalls, OwnerCall(op) PROVE ReadsOK'
      BY <1>1 DEF OwnerCall
<1>2. CASE CloseStop
      BY <1>2 DEF CloseStop
<1>3. CASE CloseNotify
      BY <1>3 DEF CloseNotify
<1>4. CASE CloseJoinWriter
      BY <1>4 DEF CloseJoinWriter
<1>5. CASE ClosePort
      BY <1>5, CancelKeepsReads
<1>6. CASE CloseJoinReader
      BY <1>6 DEF CloseJoinReader
<1>7. CASE OpenPort
  <2>1. reads = 0 /\ completions = <<>> /\ portOpen' /\ UNCHANGED <<reads, completions>>
        BY <1>7 DEF OpenPort
  <2>2. Callbacks = 0 /\ Callbacks' = Callbacks
        BY <2>1, CallbacksType
  <2>3. pc'["owner"] = "start" /\ pc'["reader"] = pc["reader"]
        BY <1>7 DEF OpenPort
  <2> QED BY <2>1, <2>2, <2>3
<1>8. CASE OpenFails
      BY <1>8 DEF OpenFails
<1>9. CASE OpenGivesUp
      BY <1>9 DEF OpenGivesUp
<1>10. CASE OpenStartWriter
      BY <1>10 DEF OpenStartWriter
<1>11. CASE OpenStartReader
      BY <1>11, StartKeepsReads
<1>12. CASE WriterIdle
      BY <1>12 DEF WriterIdle
<1>13. CASE WriterWait
      BY <1>13 DEF WriterWait
<1>14. CASE WriterExit
      BY <1>14 DEF WriterExit
<1>15. CASE WriterTake
      BY <1>15 DEF WriterTake
<1>16. CASE WriterCancel
      BY <1>16, CancelKeepsReads
<1>17. CASE WriterWrite
      BY <1>17 DEF WriterWrite
<1>18. CASE ReaderTop
      BY <1>18 DEF ReaderTop
<1>19. CASE ReaderOutOfWork
      BY <1>19 DEF ReaderOutOfWork
<1>20. CASE ReadCallback
      BY <1>20, CallbackKeepsReads
<1>21. CASE ReaderCheck
  <2>1. UNCHANGED <<reads, completions, portOpen>> /\ pc'["owner"] = pc["owner"]
        BY <1>21 DEF ReaderCheck
  <2>2. Callbacks = 0 /\ Callbacks' = Callbacks
        BY <1>21, <2>1 DEF ReaderCheck
  <2> QED BY <2>1, <2>2
<1>22. CASE ReaderInstall
      BY <1>22, InstallKeepsReads
<1>23. ASSUME NEW c \in Clients, ClientCall(c) PROVE ReadsOK'
      BY <1>23 DEF ClientCall
<1>24. ASSUME NEW c \in Clients, ClientSend(c) PROVE ReadsOK'
      BY <1>24 DEF ClientSend
<1>25. ASSUME NEW c \in Clients, ClientWait(c) PROVE ReadsOK'
      BY <1>25 DEF ClientWait
<1>26. ASSUME NEW c \in Clients, ClientTimeout(c) PROVE ReadsOK'
      BY <1>26 DEF ClientTimeout
<1>27. ASSUME NEW c \in Clients, ClientWoken(c) PROVE ReadsOK'
      BY <1>27 DEF ClientWoken
<1>28. CASE ArduinoAnswer
      BY <1>28 DEF ArduinoAnswer
<1>29. CASE ArduinoPublish
      BY <1>29 DEF ArduinoPublish
<1>30. CASE DataArrives
      BY <1>30, ArrivalKeepsReads
<1>31. CASE UNCHANGED vars
      BY <1>31 DEF vars
<1> HIDE DEF ReadsOK
<1> QED BY <1>1, <1>2, <1>3, <1>4, <1>5, <1>6, <1>7, <1>8, <1>9, <1>10, <1>11, <1>12, <1>13,
           <1>14, <1>15, <1>16, <1>17, <1>18, <1>19, <1>20, <1>21, <1>22, <1>23, <1>24, <1>25,
           <1>26, <1>27, <1>28, <1>29, <1>30, <1>31
        DEF Next, Owner, Writer, Reader, Client

LEMMA InitReads == Init => ReadsOK
<1> SUFFICES ASSUME Init PROVE ReadsOK
    OBVIOUS
<1>1. reads = 0 /\ Len(completions) = 0
      BY EmptySeq DEF Init
<1>2. Callbacks = 0
      BY <1>1 DEF Callbacks
<1>3. pc["owner"] = "idle" /\ pc["reader"] = "dead"
      BY NameAssumption DEF Init, Threads
<1> QED BY <1>1, <1>2, <1>3 DEF ReadsOK

\* "To avoid putting multiple callbacks on the same port" (AVRController.h:122):
\* as long as Open() is not called with a completion of the last session still
\* queued, however often it is called.
THEOREM OneCallbackHolds == Spec /\ []NothingLeftOver => []OneCallback
<1>1. Init => ReadsOK
      BY InitReads
<1>2. ReadsOK => OneCallback
  <2>1. OneCallback <=> Callbacks <= IF pc["reader"] \in {"check", "lock port"} THEN 0 ELSE 1
        BY DEF OneCallback, Callbacks
  <2>2. CASE pc["reader"] \in {"check", "lock port"}
    <3>1. ReadsOK => Callbacks = 0
          BY <2>2 DEF ReadsOK
    <3>2. Callbacks = 0 => Callbacks <= 0
          OBVIOUS
    <3> QED BY <2>1, <2>2, <3>1, <3>2
  <2>3. CASE pc["reader"] \notin {"check", "lock port"}
        BY <2>1, <2>3 DEF ReadsOK
  <2> QED BY <2>2, <2>3
<1>3. Init /\ []SessionInv /\ []NothingLeftOver /\ [][Next]_vars => []ReadsOK
      BY <1>1, ReadsStep, PTL
<1> QED BY SessionInvHolds, <1>2, <1>3, PTL DEF Spec

(***************************************************************************)
(* Answers                                                                 *)
(***************************************************************************)

\* Nor has a message been read in part.
CleanOpen == NothingLeftOver /\ (pc["owner"] = "open" => m_message = NULL)

LengthOf(m) == [part |-> "length", msg |-> m]
RestOf(m) == [part |-> "rest", msg |-> m]

\* A stream of whole messages, of two parts each.
Whole(s) ==
    \A k \in 1 .. Len(s) :
        k % 2 = 1 =>
            /\ k < Len(s)
            /\ \E m \in Messages : s[k] = LengthOf(m) /\ s[k + 1] = RestOf(m)

\* What is read after the length word of m, or after a whole message.
Follows(s, m) ==
    IF m = NULL THEN Whole(s) ELSE s # <<>> /\ Head(s) = RestOf(m) /\ Whole(Tail(s))

\* The message whose length word is the last part read, or NULL.
LastRead ==
    IF completions = <<>> \/ Head(completions) = NULL THEN m_message
    ELSE IF m_message = NULL THEN Head(completions).msg
    ELSE NULL

\* What has been read and what will be are one stream of whole messages.
StreamOK ==
    /\ m_message # Mixed
    /\ Follows(line, LastRead)
    /\ completions # <<>> /\ Head(completions) # NULL =>
           IF m_message = NULL THEN \E m \in Messages : Head(completions) = LengthOf(m)
                               ELSE Head(completions) = RestOf(m_message)
    /\ pc["owner"] \in {"start", "start reader"} => m_message = NULL

LEMMA PartFields ==
    /\ \A m : LengthOf(m).part = "length" /\ LengthOf(m).msg = m
    /\ \A m : RestOf(m).part = "rest" /\ RestOf(m).msg = m
    /\ \A m \in Messages : LengthOf(m) \in Parts /\ RestOf(m) \in Parts
    /\ \A m \in Messages : LengthOf(m) # NULL /\ RestOf(m) # NULL
<1>1. \A m : LengthOf(m).part = "length" /\ LengthOf(m).msg = m
      BY DEF LengthOf
<1>2. \A m : RestOf(m).part = "rest" /\ RestOf(m).msg = m
      BY DEF RestOf
<1>3. \A m \in Messages : LengthOf(m) \in Parts /\ RestOf(m) \in Parts
      BY DEF LengthOf, RestOf, Parts
<1>4. NULL \notin Parts
      BY NullAssumption
<1> QED BY <1>1, <1>2, <1>3, <1>4

LEMMA MixedIsNoMessage == Mixed \notin Messages /\ Mixed # NULL
<1>1. \A m \in Messages : m.fsm \in FsmIDs
      BY DEF Messages, Requests, Published
<1>2. Mixed.fsm = "mixed"
      BY DEF Mixed
<1> QED BY <1>1, <1>2, NullAssumption

LEMMA SplitParts ==
    ASSUME NEW m \in Messages
    PROVE  /\ Split(m) \in Seq(Parts) /\ Len(Split(m)) = 2
           /\ Split(m)[1] = LengthOf(m) /\ Split(m)[2] = RestOf(m)
<1>1. Split(m) = <<LengthOf(m), RestOf(m)>>
      BY DEF Split, LengthOf, RestOf
<1> QED BY <1>1, PartFields

LEMMA WholeTail ==
    ASSUME NEW s \in Seq(Parts), Whole(s), s # <<>>
    PROVE  \E m \in Messages : /\ Head(s) = LengthOf(m)
                               /\ Tail(s) # <<>> /\ Head(Tail(s)) = RestOf(m)
                               /\ Whole(Tail(Tail(s)))
<1>1. Len(s) \in Nat /\ Len(s) >= 1
      BY EmptySeq
<1>2. 1 < Len(s) /\ \E m \in Messages : s[1] = LengthOf(m) /\ s[2] = RestOf(m)
      BY <1>1 DEF Whole
<1>3. /\ Tail(s) \in Seq(Parts) /\ Len(Tail(s)) = Len(s) - 1
      /\ \A i \in 1 .. Len(s) - 1 : Tail(s)[i] = s[i + 1]
      BY HeadTailProperties
<1>4. Tail(s) # <<>> /\ Head(Tail(s)) = s[2] /\ Head(s) = s[1]
  <2> DEFINE u == Tail(s)
  <2>1. u \in Seq(Parts) /\ Len(u) = Len(s) - 1 /\ u[1] = s[2]
        BY <1>1, <1>2, <1>3
  <2> HIDE DEF u
  <2>2. Len(u) # 0
        BY <1>1, <1>2, <2>1
  <2>3. u # <<>> /\ Head(u) = u[1] /\ Head(s) = s[1]
        BY <2>1, <2>2, EmptySeq
  <2> QED BY <2>1, <2>3 DEF u
<1>5. /\ Len(Tail(Tail(s))) = Len(s) - 2
      /\ \A i \in 1 .. Len(s) - 2 : Tail(Tail(s))[i] = s[i + 2]
  <2>1. /\ Len(Tail(Tail(s))) = Len(Tail(s)) - 1
        /\ \A i \in 1 .. Len(Tail(s)) - 1 : Tail(Tail(s))[i] = Tail(s)[i + 1]
        BY <1>3, <1>4, HeadTailProperties
  <2> QED BY <1>1, <1>2, <1>3, <2>1
<1>6. Whole(Tail(Tail(s)))
  <2> DEFINE t == Tail(Tail(s))
  <2> HIDE DEF t
  <2>1. Len(t) = Len(s) - 2 /\ \A i \in 1 .. Len(s) - 2 : t[i] = s[i + 2]
        BY <1>5 DEF t
  <2> SUFFICES ASSUME NEW k \in 1 .. Len(t), k % 2 = 1
               PROVE  /\ k < Len(t)
                      /\ \E m \in Messages : t[k] = LengthOf(m) /\ t[k + 1] = RestOf(m)
      BY DEF Whole, t
  <2>2. k + 2 \in 1 .. Len(s) /\ (k + 2) % 2 = 1
        BY <1>1, <2>1
  <2>3. k + 2 < Len(s) /\ \E m \in Messages : s[k + 2] = LengthOf(m) /\ s[(k + 2) + 1] = RestOf(m)
        BY <2>2 DEF Whole
  <2>4. (k + 2) + 1 = (k + 1) + 2 /\ k \in 1 .. Len(s) - 2 /\ k + 1 \in 1 .. Len(s) - 2
        BY <1>1, <2>1, <2>3
  <2> QED BY <1>1, <2>1, <2>3, <2>4
<1> QED BY <1>2, <1>4, <1>6

LEMMA WholeAppend ==
    ASSUME NEW s \in Seq(Parts), Whole(s), NEW m \in Messages PROVE Whole(s \o Split(m))
<1> DEFINE n == Len(s)
           t == s \o Split(m)
<1>1. n \in Nat
      BY LenProperties
<1>2. n % 2 = 0
  <2> SUFFICES ASSUME n % 2 = 1 PROVE FALSE
      BY <1>1
  <2>1. n \in 1 .. Len(s)
        BY <1>1
  <2> QED BY <1>1, <2>1 DEF Whole
<1>3. /\ Len(t) = n + 2
      /\ \A i \in 1 .. n : t[i] = s[i]
      /\ t[n + 1] = LengthOf(m) /\ t[n + 2] = RestOf(m)
  <2>1. /\ Len(t) = n + 2
        /\ \A i \in 1 .. n + 2 : t[i] = IF i <= n THEN s[i] ELSE Split(m)[i - n]
    <3> DEFINE u == Split(m)
    <3>1. u \in Seq(Parts) /\ Len(u) = 2
          BY SplitParts
    <3> HIDE DEF u
    <3>2. /\ Len(s \o u) = Len(s) + Len(u)
          /\ \A i \in 1 .. Len(s) + Len(u) : (s \o u)[i] = IF i <= Len(s) THEN s[i] ELSE u[i - Len(s)]
          BY <3>1, ConcatProperties
    <3> QED BY <3>1, <3>2 DEF u
  <2>2. \A i \in 1 .. n : t[i] = s[i]
        BY <1>1, <2>1
  <2>3. t[n + 1] = Split(m)[1] /\ t[n + 2] = Split(m)[2]
    <3>1. n + 1 \in 1 .. n + 2 /\ ~(n + 1 <= n) /\ (n + 1) - n = 1
          BY <1>1
    <3>2. n + 2 \in 1 .. n + 2 /\ ~(n + 2 <= n) /\ (n + 2) - n = 2
          BY <1>1
    <3> QED BY <2>1, <3>1, <3>2
  <2> QED BY <2>1, <2>2, <2>3, SplitParts
<1> HIDE DEF t
<1>4. ASSUME NEW k \in 1 .. Len(t), k % 2 = 1
      PROVE  /\ k < Len(t)
             /\ \E l \in Messages : t[k] = LengthOf(l) /\ t[k + 1] = RestOf(l)
  <2>1. CASE k <= n
    <3>1. k \in 1 .. Len(s)
          BY <1>1, <1>3, <2>1
    <3>2. k < Len(s) /\ \E l \in Messages : s[k] = LengthOf(l) /\ s[k + 1] = RestOf(l)
          BY <1>4, <3>1 DEF Whole
    <3>3. k \in 1 .. n /\ k + 1 \in 1 .. n /\ k < Len(t)
          BY <1>1, <1>3, <3>1, <3>2
    <3> QED BY <1>3, <3>2, <3>3
  <2>2. CASE ~(k <= n)
    <3>1. k = n + 1
          BY <1>1, <1>2, <1>3, <1>4, <2>2
    <3>2. (n + 1) + 1 = n + 2 /\ n + 1 < Len(t)
          BY <1>1, <1>3
    <3> QED BY <1>3, <3>1, <3>2
  <2> QED BY <2>1, <2>2
<1> QED BY <1>4 DEF Whole, t

LEMMA FollowsAppend ==
    ASSUME NEW s \in Seq(Parts), NEW l, Follows(s, l), NEW m \in Messages
    PROVE  Follows(s \o Split(m), l)
<1>1. CASE l = NULL
      BY <1>1, WholeAppend DEF Follows
<1>2. CASE l # NULL
  <2>1. s # <<>> /\ Head(s) = RestOf(l) /\ Whole(Tail(s))
        BY <1>2 DEF Follows
  <2>2. Tail(s) \in Seq(Parts)
        BY <2>1, HeadTailProperties
  <2>3. Whole(Tail(s) \o Split(m))
        BY <2>1, <2>2, WholeAppend
  <2> DEFINE t == Split(m)
  <2>4. t \in Seq(Parts)
        BY SplitParts
  <2> HIDE DEF t
  <2>5. s \o t # <<>> /\ Head(s \o t) = Head(s) /\ Tail(s \o t) = Tail(s) \o t
        BY <2>1, <2>4
  <2> QED BY <1>2, <2>1, <2>3, <2>5 DEF Follows, t
<1> QED BY <1>1, <1>2

\* What the handler makes of the part it is given.
LEMMA AdvanceFollows ==
    ASSUME SessionInv, StreamOK, completions # <<>>, NEW next \in Advance(Head(completions))
    PROVE  /\ next.left = LastRead
           /\ next.done = NULL \/ next.done \in Messages
<1> DEFINE part == Head(completions)
<1>0. m_message \in Messages \cup {NULL}
      BY DEF SessionInv, TypeOK, StreamOK
<1>1. CASE part = NULL
      BY <1>1 DEF Advance, LastRead
<1>2. CASE part # NULL /\ m_message # NULL
  <2>1. part = [part |-> "rest", msg |-> m_message]
        BY <1>2 DEF StreamOK, RestOf
  <2>2. next = [left |-> NULL, done |-> m_message]
        BY <1>2, <2>1 DEF Advance
  <2> QED BY <1>0, <1>2, <2>2 DEF LastRead
<1>3. CASE part # NULL /\ m_message = NULL
  <2>1. PICK m \in Messages : part = LengthOf(m)
        BY <1>3 DEF StreamOK
  <2>2. part.part = "length"
        BY <2>1, PartFields
  <2>3. next = [left |-> part.msg, done |-> NULL]
        BY <1>3, <2>2 DEF Advance
  <2> QED BY <1>3, <2>3 DEF LastRead
<1> QED BY <1>1, <1>2, <1>3

LEMMA LastReadType == ASSUME SessionInv, StreamOK PROVE LastRead \in Messages \cup {NULL}
<1>1. m_message \in Messages \cup {NULL}
      BY DEF SessionInv, TypeOK, StreamOK
<1>2. CASE completions = <<>> \/ Head(completions) = NULL
      BY <1>1, <1>2 DEF LastRead
<1>3. CASE ~(completions = <<>> \/ Head(completions) = NULL) /\ m_message = NULL
  <2>1. \E m \in Messages : Head(completions) = LengthOf(m)
        BY <1>3 DEF StreamOK
  <2>2. Head(completions).msg \in Messages
        BY <2>1, PartFields
  <2> QED BY <1>3, <2>2 DEF LastRead
<1>4. CASE ~(completions = <<>> \/ Head(completions) = NULL) /\ m_message # NULL
      BY <1>4 DEF LastRead
<1> QED BY <1>2, <1>3, <1>4

\* Steps that leave what has been read as it is.
LEMMA NothingRead ==
    ASSUME StreamOK, UNCHANGED <<m_message, completions, line>>,
           pc'["owner"] \in {"start", "start reader"} => m_message = NULL
    PROVE  StreamOK'
BY DEF StreamOK, LastRead

\* A read that a call cancels, or that a closed port ends, has read nothing.
LEMMA NullCompletion ==
    ASSUME StreamOK, UNCHANGED <<m_message, line>>,
           completions = <<>> \/ completions' = completions,
           completions' = completions \/ (completions' # <<>> /\ Head(completions') = NULL),
           pc'["owner"] \in {"start", "start reader"} => m_message = NULL
    PROVE  StreamOK'
<1>1. CASE completions' = completions
      BY <1>1, NothingRead
<1>2. CASE completions' # completions
  <2>1. completions = <<>> /\ completions' # <<>> /\ Head(completions') = NULL
        BY <1>2
  <2>2. LastRead' = m_message /\ LastRead = m_message
        BY <2>1 DEF LastRead
  <2> QED BY <2>1, <2>2 DEF StreamOK
<1> QED BY <1>1, <1>2

\* The owner is at "start" or "start reader" only after opening the port.
LEMMA OwnerStarts ==
    ASSUME SessionInv, [Next]_vars, pc'["owner"] \in {"start", "start reader"}
    PROVE  pc["owner"] \in {"open", "start", "start reader"}
           /\ (pc["owner"] = "open" => OpenPort)
<1> USE NameAssumption DEF SessionInv, Control, PcOK, Threads, Go
<1>1. ASSUME NEW op \in OwnerCalls, OwnerCall(op) PROVE FALSE
      BY <1>1 DEF OwnerCall
<1>2. CASE Owner
      BY <1>2 DEF Owner, CloseStop, CloseNotify, CloseJoinWriter, ClosePort, CloseJoinReader,
                  OpenFails, OpenGivesUp, OpenStartWriter, OpenStartReader, OpenPort
<1>3. CASE Writer
      BY <1>3 DEF Writer, WriterIdle, WriterWait, WriterExit, WriterTake, WriterCancel,
         WriterWrite
<1>4. CASE ReadCallback
      BY <1>4, CallbackFrame DEF CallbackMoves
<1>5. CASE ReaderTop \/ ReaderOutOfWork \/ ReaderCheck \/ ReaderInstall
      BY <1>5 DEF ReaderTop, ReaderOutOfWork, ReaderCheck, ReaderInstall
<1>6. ASSUME NEW c \in Clients, ClientCall(c) \/ Client(c) PROVE pc'["owner"] = pc["owner"]
      BY <1>6 DEF ClientCall, Client, ClientSend, ClientWait, ClientTimeout, ClientWoken
<1>7. CASE ArduinoAnswer \/ ArduinoPublish \/ DataArrives \/ UNCHANGED vars
      BY <1>7 DEF ArduinoAnswer, ArduinoPublish, DataArrives, vars
<1> QED BY <1>1, <1>2, <1>3, <1>4, <1>5, <1>6, <1>7 DEF Next, Reader

LEMMA CancelCompletes ==
    ASSUME SessionInv, ReadsOK, CancelReads
    PROVE  /\ completions = <<>> \/ completions' = completions
           /\ completions' = completions \/ (completions' # <<>> /\ Head(completions') = NULL)
<1>0. StreamTypes /\ completions \in Seq(Parts \cup {NULL}) /\ reads \in Nat
      BY TypeParts DEF SessionInv, TypeOK
<1> DEFINE nulls == [k \in 1 .. reads |-> NULL]
<1>1. nulls \in Seq(Parts \cup {NULL}) /\ Len(nulls) = reads
      BY <1>0
<1>2. completions' = completions \o nulls
      BY DEF CancelReads
<1>3. CASE reads = 0
  <2> HIDE DEF nulls
  <2>1. nulls = <<>>
        BY <1>1, <1>3, EmptySeq
  <2> QED BY <1>0, <1>2, <2>1, ConcatEmptySeq
<1>4. CASE reads # 0
  <2>1. Callbacks \in Nat /\ reads <= Callbacks /\ Callbacks <= 1
        BY <1>0, CallbacksType DEF ReadsOK
  <2>2. reads = 1 /\ Callbacks = 1
        BY <1>0, <1>4, <2>1
  <2>3. Len(completions) = 0
    <3>1. Len(completions) \in Nat /\ Callbacks = reads + Len(completions)
          BY <1>0, LenProperties DEF Callbacks
    <3> QED BY <2>2, <3>1
  <2>4. completions = <<>>
        BY <1>0, <2>3, EmptySeq
  <2>5. nulls[1] = NULL
        BY <2>2
  <2> HIDE DEF nulls
  <2>6. completions' = nulls
        BY <1>1, <1>2, <2>4, ConcatEmptySeq
  <2>7. Len(nulls) = 1
        BY <1>1, <2>2
  <2> QED BY <1>1, <2>4, <2>5, <2>6, <2>7, EmptySeq
<1> QED BY <1>3, <1>4

\* Data is read when nothing else has been: the part goes to an idle handler.
LEMMA ArrivalKeepsStream ==
    ASSUME SessionInv, ReadsOK, StreamOK, DataArrives PROVE StreamOK'
<1>1. /\ line # <<>> /\ line \in Seq(Parts) /\ line' = Tail(line) /\ reads > 0
      /\ completions' = Append(completions, Head(line))
      /\ m_message' = m_message /\ pc' = pc
      BY DEF DataArrives, SessionInv, TypeOK
<1>2. completions = <<>>
  <2>0. completions \in Seq(Parts \cup {NULL}) /\ reads \in Nat
        BY DEF SessionInv, TypeOK
  <2>1. Len(completions) \in Nat /\ reads + Len(completions) <= 1
        BY <2>0, LenProperties DEF ReadsOK, Callbacks
  <2>2. Len(completions) = 0
        BY <1>1, <2>0, <2>1
  <2> QED BY <2>0, <2>2, EmptySeq
<1>3. completions' # <<>> /\ Head(completions') = Head(line)
      BY <1>1, <1>2
<1>4. Head(line) \in Parts
      BY <1>1, HeadTailProperties
<1>5. Head(completions') # NULL
      BY <1>3, <1>4, NullAssumption
<1>6. LastRead = m_message /\ Follows(line, m_message)
      BY <1>2 DEF StreamOK, LastRead
<1>7. CASE m_message = NULL
  <2>1. PICK m \in Messages : /\ Head(line) = LengthOf(m)
                              /\ line' # <<>> /\ Head(line') = RestOf(m) /\ Whole(Tail(line'))
        BY <1>1, <1>6, <1>7, WholeTail DEF Follows
  <2>2. LastRead' = m
        BY <1>1, <1>3, <1>5, <1>7, <2>1, PartFields DEF LastRead
  <2>3. Follows(line', m)
        BY <2>1, RequestsAreMessages DEF Follows
  <2> QED BY <1>1, <1>3, <1>7, <2>1, <2>2, <2>3 DEF StreamOK
<1>8. CASE m_message # NULL
  <2>1. Head(line) = RestOf(m_message) /\ Whole(line')
        BY <1>1, <1>6, <1>8 DEF Follows
  <2>2. LastRead' = NULL
        BY <1>1, <1>3, <1>5, <1>8 DEF LastRead
  <2> QED BY <1>1, <1>3, <1>8, <2>1, <2>2 DEF StreamOK, Follows
<1> QED BY <1>7, <1>8

LEMMA CallbackKeepsStream ==
    ASSUME SessionInv, ReadsOK, StreamOK, [Next]_vars, ReadCallback PROVE StreamOK'
<1>1. completions # <<>> /\ completions' = Tail(completions) /\ line' = line
      BY CallbackFrame DEF ReadCallback, device, SessionInv, Control
<1>2. PICK next \in Advance(Head(completions)) : m_message' = next.left
      BY DEF ReadCallback
<1>3. m_message' = LastRead
      BY <1>1, <1>2, AdvanceFollows
<1>4. completions' = <<>>
  <2>0. completions \in Seq(Parts \cup {NULL}) /\ reads \in Nat
        BY DEF SessionInv, TypeOK
  <2>1. Len(completions) \in Nat /\ reads + Len(completions) <= 1
        BY <2>0, LenProperties DEF ReadsOK, Callbacks
  <2>2. Len(completions') = Len(completions) - 1 /\ completions' \in Seq(Parts \cup {NULL})
        BY <1>1, <2>0, HeadTailProperties
  <2>3. Len(completions') = 0
        BY <2>0, <2>1, <2>2, LenProperties
  <2> QED BY <2>2, <2>3, EmptySeq
<1>5. LastRead' = m_message'
      BY <1>4 DEF LastRead
<1>6. m_message' # Mixed
      BY <1>3, LastReadType, MixedIsNoMessage
<1>7. pc'["owner"] \notin {"start", "start reader"}
  <2>1. pc["reader"] = "run" /\ pc'["owner"] = pc["owner"]
        BY CallbackFrame DEF CallbackMoves, SessionInv, Control
  <2> QED BY <2>1 DEF SessionInv, Control, ThreadsOK
<1> QED BY <1>1, <1>3, <1>4, <1>5, <1>6, <1>7 DEF StreamOK

LEMMA StreamStep ==
    ASSUME SessionInv, ReadsOK, StreamOK, CleanOpen, [Next]_vars PROVE StreamOK'
<1>0. pc'["owner"] \in {"start", "start reader"} => m_message = NULL
      BY OwnerStarts DEF CleanOpen, StreamOK
<1>1. CASE ClosePort \/ WriterCancel
  <2>1. UNCHANGED <<m_message, line>> /\ (CancelReads \/ completions' = completions)
        BY <1>1 DEF ClosePort, WriterCancel, device
  <2> QED BY <1>0, <2>1, CancelCompletes, NullCompletion
<1>2. CASE OpenPort
  <2>1. pc["owner"] = "open" /\ m_message' = m_message /\ completions' = completions /\ line' = <<>>
        BY <1>2 DEF OpenPort, async
  <2>2. m_message = NULL /\ completions = <<>>
        BY <2>1 DEF CleanOpen, NothingLeftOver
  <2>3. LastRead' = NULL
        BY <2>1, <2>2 DEF LastRead
  <2>4. Whole(<<>>)
        BY DEF Whole
  <2> QED BY <2>1, <2>2, <2>3, <2>4, MixedIsNoMessage DEF StreamOK, Follows
<1>3. CASE OpenStartReader
  <2>1. UNCHANGED <<m_message, completions, line>>
        BY <1>3 DEF OpenStartReader, device
  <2> QED BY <1>0, <2>1, NothingRead
<1>4. CASE ReadCallback
      BY <1>4, CallbackKeepsStream
<1>5. CASE ReaderInstall
  <2>1. UNCHANGED <<m_message, line>> /\ pc["reader"] = "lock port"
        BY <1>5 DEF ReaderInstall, device
  <2>2. completions = <<>>
        BY <2>1, CallbacksType, TypeParts DEF ReadsOK, SessionInv
  <2>3. completions' = completions \/ completions' = <<NULL>>
    <3>1. completions' = completions \/ completions' = Append(completions, NULL)
          BY <1>5 DEF ReaderInstall
    <3> QED BY <2>2, <3>1
  <2>4. <<NULL>> # <<>> /\ Head(<<NULL>>) = NULL
        OBVIOUS
  <2> QED BY <1>0, <2>1, <2>2, <2>3, <2>4, NullCompletion
<1>6. CASE ArduinoAnswer \/ ArduinoPublish
  <2>1. UNCHANGED <<m_message, completions, pc>>
        BY <1>6 DEF ArduinoAnswer, ArduinoPublish, async
  <2>2. LastRead' = LastRead
        BY <2>1 DEF LastRead
  <2>3. line' = line \/ \E m \in Messages : line' = line \o Split(m)
    <3>1. CASE ArduinoAnswer
      <4>1. wire[answered + 1] \in Messages
        <5>1. wire \in Seq(Requests) /\ answered \in 0 .. Len(wire) /\ answered < Len(wire)
              BY <3>1 DEF ArduinoAnswer, SessionInv, TypeOK
        <5>2. answered + 1 \in 1 .. Len(wire)
              BY <5>1, LenProperties
        <5> QED BY <5>1, <5>2, RequestsAreMessages
      <4> QED BY <3>1, <4>1 DEF ArduinoAnswer
    <3>2. CASE ArduinoPublish
      <4>1. PICK f \in FsmIDs : line' = Split(Published(f)) /\ line = <<>>
            BY <3>2, CallAssumption DEF ArduinoPublish
      <4>2. Published(f) \in Messages
            BY DEF Messages
      <4>3. line' = line \o Split(Published(f))
            BY <4>1, <4>2, SplitParts, ConcatEmptySeq
      <4> QED BY <4>2, <4>3
    <3> QED BY <1>6, <3>1, <3>2
  <2>4. line \in Seq(Parts) /\ Follows(line, LastRead)
        BY DEF SessionInv, TypeOK, StreamOK
  <2>5. Follows(line', LastRead)
        BY <2>3, <2>4, FollowsAppend
  <2> QED BY <2>1, <2>2, <2>5 DEF StreamOK
<1>7. CASE DataArrives
      BY <1>7, ArrivalKeepsStream
<1>8. CASE UNCHANGED <<m_message, reads, completions, line>>
      BY <1>0, <1>8, NothingRead
<1> QED BY <1>1, <1>2, <1>3, <1>4, <1>5, <1>6, <1>7, <1>8, StreamChanges

\* A handler still installed for the call a client is in is for the FSM it asked.
HandlersOK ==
    \A c \in Clients, h \in m_responseHandlers :
        h.client = c => h.n <= count[c] /\ (h.n = count[c] => h.fsm = asked[c])

\* A response is a whole message of the FSM asked, and is there once true is returned.
ResponsesOK ==
    \A c \in Clients :
        /\ response[c] # NULL => response[c] \in Messages /\ response[c].fsm = asked[c]
        /\ pc[c] # "idle" => result[c] = NULL
        /\ result[c] = TRUE => response[c] # NULL

\* A finished message goes to the calls that asked its FSM.
LEMMA DeliverKeepsResponses ==
    ASSUME SessionInv, HandlersOK, ResponsesOK, NEW m \in Messages, Deliver(m.fsm, m),
           UNCHANGED <<count, asked, result>>, CallbackMoves
    PROVE  HandlersOK' /\ ResponsesOK'
<1>1. m_responseHandlers' \subseteq m_responseHandlers
      BY DEF Deliver
<1>2. HandlersOK'
      BY <1>1 DEF HandlersOK
<1>3. ASSUME NEW c \in Clients
      PROVE  \/ response'[c] = response[c]
             \/ response'[c] = m /\ m.fsm = asked[c] /\ pc[c] # "idle"
  <2>1. CASE pc[c] # "idle" /\ \E h \in Hit(m.fsm) : h.client = c /\ h.n = count[c]
    <3>1. PICK h \in m_responseHandlers : h.fsm = m.fsm /\ h.client = c /\ h.n = count[c]
          BY <2>1 DEF Hit
    <3>2. asked[c] = m.fsm
          BY <3>1 DEF HandlersOK
    <3> QED BY <2>1, <3>2 DEF Deliver
  <2>2. CASE ~(pc[c] # "idle" /\ \E h \in Hit(m.fsm) : h.client = c /\ h.n = count[c])
        BY <2>2 DEF Deliver
  <2> QED BY <2>1, <2>2
<1>4. ResponsesOK'
  <2> SUFFICES ASSUME NEW c \in Clients
               PROVE  /\ response'[c] # NULL => response'[c] \in Messages /\ response'[c].fsm = asked[c]
                      /\ pc'[c] # "idle" => result[c] = NULL
                      /\ result[c] = TRUE => response'[c] # NULL
      BY DEF ResponsesOK
  <2>1. /\ response[c] # NULL => response[c] \in Messages /\ response[c].fsm = asked[c]
        /\ pc[c] # "idle" => result[c] = NULL
        /\ result[c] = TRUE => response[c] # NULL
        BY DEF ResponsesOK
  <2>2. pc'[c] # "idle" => pc[c] # "idle"
        BY DEF CallbackMoves
  <2> QED BY <1>3, <2>1, <2>2, NullAssumption
<1> QED BY <1>2, <1>4

LEMMA CallKeepsResponses ==
    ASSUME SessionInv, HandlersOK, ResponsesOK, [Next]_vars, NEW c \in Clients, ClientCall(c)
    PROVE  HandlersOK' /\ ResponsesOK'
<1>1. HandlersOK'
  <2> SUFFICES ASSUME NEW d \in Clients, NEW h \in m_responseHandlers', h.client = d
               PROVE  h.n <= count'[d] /\ (h.n = count'[d] => h.fsm = asked'[d])
      BY DEF HandlersOK
  <2>1. count[d] \in Nat
        BY CallAssumption DEF SessionInv, CallsOK
  <2>2. CASE h \in m_responseHandlers
    <3>1. h.n <= count[d] /\ (h.n = count[d] => h.fsm = asked[d]) /\ h.n \in Nat
      <4>1. h \in Requests
            BY <2>2 DEF SessionInv, TypeOK
      <4>2. h.n \in Nat
            BY <4>1 DEF Requests
      <4> QED BY <2>2, <4>2 DEF HandlersOK
    <3>2. CASE d = c
          BY <2>1, <3>1, <3>2, CallBegins
    <3>3. CASE d # c
          BY <3>1, <3>3, CallBegins
    <3> QED BY <3>2, <3>3
  <2>3. CASE h.client = c /\ h.n = count'[c] /\ h.fsm = asked'[c]
    <3>1. count'[c] \in Nat
          BY <2>1, <2>3, CallBegins
    <3> QED BY <2>3, <3>1
  <2> QED BY <2>2, <2>3, CallBegins
<1>2. ResponsesOK'
  <2> SUFFICES ASSUME NEW d \in Clients
               PROVE  /\ response'[d] # NULL => response'[d] \in Messages /\ response'[d].fsm = asked'[d]
                      /\ pc'[d] # "idle" => result'[d] = NULL
                      /\ result'[d] = TRUE => response'[d] # NULL
      BY DEF ResponsesOK
  <2>1. CASE d = c
        BY <2>1, CallBegins, NullAssumption
  <2>2. CASE d # c
    <3>1. response'[d] = response[d] /\ asked'[d] = asked[d] /\ result'[d] = result[d]
          BY <2>2, CallBegins
    <3>2. pc'[d] = pc[d]
          BY <2>2 DEF ClientCall, Go, SessionInv, Control, PcOK, Threads
    <3> QED BY <3>1, <3>2 DEF ResponsesOK
  <2> QED BY <2>1, <2>2
<1> QED BY <1>1, <1>2

\* A call that is over returns true only if a response has been stored.
LEMMA ReturnKeepsResponses ==
    ASSUME SessionInv, HandlersOK, ResponsesOK, NEW c \in Clients,
           ClientTimeout(c) \/ ClientWoken(c)
    PROVE  HandlersOK' /\ ResponsesOK'
<1>1. UNCHANGED <<m_responseHandlers, count, asked, response>>
      BY DEF ClientTimeout, ClientWoken
<1>2. HandlersOK'
      BY <1>1 DEF HandlersOK
<1>3. pc'[c] = "idle" /\ \A d \in Clients \ {c} : pc'[d] = pc[d]
      BY DEF ClientTimeout, ClientWoken, Go, SessionInv, Control, PcOK, Threads
<1>4. result' = [result EXCEPT ![c] = FALSE] \/ result' = [result EXCEPT ![c] = (response[c] # NULL)]
      BY DEF ClientTimeout, ClientWoken
<1>5. result'[c] = TRUE => response[c] # NULL
      BY <1>4 DEF SessionInv, TypeOK
<1>6. \A d \in Clients \ {c} : result'[d] = result[d]
      BY <1>4 DEF SessionInv, TypeOK
<1>7. ResponsesOK'
  <2> SUFFICES ASSUME NEW d \in Clients
               PROVE  /\ response'[d] # NULL => response'[d] \in Messages /\ response'[d].fsm = asked'[d]
                      /\ pc'[d] # "idle" => result'[d] = NULL
                      /\ result'[d] = TRUE => response'[d] # NULL
      BY DEF ResponsesOK
  <2>1. CASE d = c
        BY <1>1, <1>3, <1>5, <2>1 DEF ResponsesOK
  <2>2. CASE d # c
        BY <1>1, <1>3, <1>6, <2>2 DEF ResponsesOK
  <2> QED BY <2>1, <2>2
<1> QED BY <1>2, <1>7

LEMMA AnswersStep ==
    ASSUME SessionInv, StreamOK, HandlersOK, ResponsesOK, [Next]_vars
    PROVE  HandlersOK' /\ ResponsesOK'
<1>1. ASSUME UNCHANGED <<m_responseHandlers, asked, response, result>>,
             \A c \in Clients : count'[c] = count[c] /\ (pc'[c] # "idle" => pc[c] # "idle")
      PROVE  HandlersOK' /\ ResponsesOK'
  <2>1. HandlersOK'
        BY <1>1 DEF HandlersOK
  <2>2. ResponsesOK'
        BY <1>1 DEF ResponsesOK
  <2> QED BY <2>1, <2>2
<1>2. ASSUME NEW c \in Clients, ClientCall(c) PROVE HandlersOK' /\ ResponsesOK'
      BY <1>2, CallKeepsResponses
<1>3. ASSUME NEW c \in Clients, ClientTimeout(c) \/ ClientWoken(c) PROVE HandlersOK' /\ ResponsesOK'
      BY <1>3, ReturnKeepsResponses
<1>4. CASE ReadCallback
  <2>1. CallbackMoves /\ UNCHANGED <<count, asked, result>>
        BY <1>4, CallbackFrame DEF SessionInv, Control
  <2>2. PICK next \in Advance(Head(completions)) :
            IF next.done = NULL THEN UNCHANGED <<m_responseHandlers, response>>
            ELSE \E f \in FsmIDs : (next.done # Mixed => f = next.done.fsm) /\ Deliver(f, next.done)
        BY <1>4 DEF ReadCallback
  <2>3. next.done = NULL \/ next.done \in Messages
        BY <1>4, <2>2, AdvanceFollows DEF ReadCallback
  <2>4. CASE next.done = NULL
        BY <1>1, <2>1, <2>2, <2>4 DEF CallbackMoves
  <2>5. CASE next.done \in Messages
    <3>1. next.done # NULL /\ next.done # Mixed
          BY <2>5, RequestsAreMessages, MixedIsNoMessage
    <3>2. Deliver(next.done.fsm, next.done)
          BY <2>2, <3>1
    <3> QED BY <2>1, <2>5, <3>2, DeliverKeepsResponses
  <2> QED BY <2>3, <2>4, <2>5
<1>5. CASE (~\E c \in Clients : ClientCall(c))
           /\ UNCHANGED <<m_responseHandlers, asked, response, result>>
           /\ \A c \in Clients : count'[c] = count[c]
      BY <1>1, <1>5, OnlyCallsBegin
<1>6. ASSUME NEW op \in OwnerCalls, OwnerCall(op)
      PROVE  UNCHANGED <<m_responseHandlers, asked, response, result>>
             /\ \A c \in Clients : count'[c] = count[c]
      BY <1>6, NameAssumption DEF OwnerCall, SessionInv, TypeOK, Threads
<1> QED BY <1>2, <1>3, <1>4, <1>5, <1>6, CallChanges

AnswerInv == ReadsOK /\ StreamOK /\ HandlersOK /\ ResponsesOK

\* "If true, response is guaranteed to be a valid AVR string" (AVRController.h:84):
\* a message is put together from its own parts and goes to who asked for it, as
\* long as Open() is not called with part of an old message still kept.
THEOREM AnswersAreWholeHolds == Spec /\ []CleanOpen => []AnswersAreWhole
<1>1. Init => AnswerInv
  <2> SUFFICES ASSUME Init PROVE AnswerInv
      OBVIOUS
  <2>1. ReadsOK
        BY InitReads
  <2>2. m_message = NULL /\ completions = <<>> /\ line = <<>> /\ m_responseHandlers = {}
        BY DEF Init
  <2>3. LastRead = NULL /\ Whole(<<>>)
        BY <2>2 DEF LastRead, Whole
  <2>8. pc["owner"] = "idle"
        BY NameAssumption DEF Init, Threads
  <2>4. StreamOK
        BY <2>2, <2>3, <2>8, MixedIsNoMessage DEF StreamOK, Follows
  <2>5. HandlersOK
        BY <2>2 DEF HandlersOK
  <2>6. \A c \in Clients : response[c] = NULL /\ result[c] = NULL
        BY DEF Init
  <2>7. ResponsesOK
        BY <2>6, NullAssumption DEF ResponsesOK
  <2> QED BY <2>1, <2>4, <2>5, <2>7 DEF AnswerInv
<1>2. ASSUME SessionInv, CleanOpen, AnswerInv, [Next]_vars PROVE AnswerInv'
      BY <1>2, ReadsStep, StreamStep, AnswersStep DEF AnswerInv, CleanOpen
<1>3. AnswerInv => AnswersAreWhole
      BY MixedIsNoMessage DEF AnswerInv, ResponsesOK, AnswersAreWhole
<1>4. Init /\ []SessionInv /\ []CleanOpen /\ [][Next]_vars => []AnswerInv
      BY <1>1, <1>2, PTL
<1> QED BY SessionInvHolds, <1>3, <1>4, PTL DEF Spec

(***************************************************************************)
(* Several sessions                                                        *)
(***************************************************************************)

\* m_bRunning is not cleared under a read thread that has not yet begun on the
\* read Open() has installed for it.
ReadBeforeClose == pc["reader"] = "top" /\ ~m_bRunning => Empty

\* A read thread that has ended has left nothing.
DeadIsEmpty == pc["reader"] = "dead" => Empty

\* Only OpenStartReader starts the read thread.
LEMMA ReaderStaysDead ==
    ASSUME SessionInv, [Next]_vars, pc["reader"] = "dead", ~OpenStartReader
    PROVE  pc'["reader"] = "dead"
<1> USE NameAssumption DEF SessionInv, Control, PcOK, Threads, Go
<1>1. ASSUME NEW op \in OwnerCalls, OwnerCall(op) PROVE pc'["reader"] = "dead"
      BY <1>1 DEF OwnerCall
<1>2. CASE Owner
      BY <1>2 DEF Owner, CloseStop, CloseNotify, CloseJoinWriter, ClosePort, CloseJoinReader,
                  OpenPort, OpenFails, OpenGivesUp, OpenStartWriter
<1>3. CASE Writer
      BY <1>3 DEF Writer, WriterIdle, WriterWait, WriterExit, WriterTake, WriterCancel,
         WriterWrite
<1>4. CASE Reader
      BY <1>4 DEF Reader, ReaderTop, ReaderOutOfWork, ReadCallback, ReaderCheck, ReaderInstall
<1>5. ASSUME NEW c \in Clients, ClientCall(c) \/ Client(c) PROVE pc'["reader"] = "dead"
      BY <1>5 DEF ClientCall, Client, ClientSend, ClientWait, ClientTimeout, ClientWoken
<1>6. CASE ArduinoAnswer \/ ArduinoPublish \/ DataArrives \/ UNCHANGED vars
      BY <1>6 DEF ArduinoAnswer, ArduinoPublish, DataArrives, vars
<1> QED BY <1>1, <1>2, <1>3, <1>4, <1>5, <1>6 DEF Next

\* Only ReaderTop ends the read thread.
LEMMA ReaderEnds ==
    ASSUME SessionInv, [Next]_vars, pc'["reader"] = "dead"
    PROVE  pc["reader"] = "dead" \/ (ReaderTop /\ ~m_bRunning)
<1> USE NameAssumption DEF SessionInv, Control, PcOK, Threads, Go
<1>1. ASSUME NEW op \in OwnerCalls, OwnerCall(op) PROVE pc["reader"] = "dead"
      BY <1>1 DEF OwnerCall
<1>2. CASE Owner
      BY <1>2 DEF Owner, CloseStop, CloseNotify, CloseJoinWriter, ClosePort, CloseJoinReader,
                  OpenPort, OpenFails, OpenGivesUp, OpenStartWriter, OpenStartReader
<1>3. CASE Writer
      BY <1>3 DEF Writer, WriterIdle, WriterWait, WriterExit, WriterTake, WriterCancel,
         WriterWrite
<1>4. CASE ReadCallback
      BY <1>4, CallbackFrame DEF CallbackMoves
<1>5. CASE ReaderTop \/ ReaderOutOfWork \/ ReaderCheck \/ ReaderInstall
      BY <1>5 DEF ReaderTop, ReaderOutOfWork, ReaderCheck, ReaderInstall
<1>6. ASSUME NEW c \in Clients, ClientCall(c) \/ Client(c) PROVE pc["reader"] = "dead"
      BY <1>6 DEF ClientCall, Client, ClientSend, ClientWait, ClientTimeout, ClientWoken
<1>7. CASE ArduinoAnswer \/ ArduinoPublish \/ DataArrives \/ UNCHANGED vars
      BY <1>7 DEF ArduinoAnswer, ArduinoPublish, DataArrives, vars
<1> QED BY <1>1, <1>2, <1>3, <1>4, <1>5, <1>6, <1>7 DEF Next, Reader

LEMMA EmptyStep ==
    ASSUME SessionInv, pc["reader"] = "dead", Empty, [Next]_vars, ~OpenStartReader PROVE Empty'
<1> USE DEF Empty
<1>1. CASE ClosePort \/ WriterCancel
  <2>1. CancelReads \/ UNCHANGED <<reads, completions>>
        BY <1>1 DEF ClosePort, WriterCancel
  <2>2. CASE CancelReads
    <3>1. StreamTypes /\ StreamTypes' /\ Callbacks = 0
          BY TypeParts, StreamTypesStep, CallbacksType DEF SessionInv
    <3>2. Callbacks' = 0
          BY <2>2, <3>1, CancelKeepsTotal
    <3>3. reads' = 0 /\ completions' = <<>>
      <4>1. reads' \in Nat /\ completions' \in Seq(Parts \cup {NULL})
            BY <3>1 DEF StreamTypes
      <4>2. Len(completions') \in Nat /\ reads' + Len(completions') = 0
            BY <3>2, <4>1, LenProperties DEF Callbacks
      <4>3. reads' = 0 /\ Len(completions') = 0
            BY <4>1, <4>2
      <4> QED BY <4>1, <4>3, EmptySeq
    <3> QED BY <3>3
  <2> QED BY <2>1, <2>2
<1>2. CASE OpenPort
      BY <1>2 DEF OpenPort, async
<1>3. CASE ReadCallback \/ ReaderInstall
      BY <1>3 DEF ReadCallback, ReaderInstall
<1>4. CASE ArduinoAnswer \/ ArduinoPublish
      BY <1>4 DEF ArduinoAnswer, ArduinoPublish, async
<1>5. CASE DataArrives
      BY <1>5 DEF DataArrives
<1>6. CASE UNCHANGED <<m_message, reads, completions, line>>
      BY <1>6
<1> QED BY <1>1, <1>2, <1>3, <1>4, <1>5, <1>6, StreamChanges

LEMMA DeadIsEmptyStep ==
    ASSUME SessionInv, ReadBeforeClose, DeadIsEmpty, [Next]_vars PROVE DeadIsEmpty'
<1> SUFFICES ASSUME pc'["reader"] = "dead" PROVE Empty'
    BY DEF DeadIsEmpty
<1>1. CASE ReaderTop /\ ~m_bRunning
  <2>1. Empty /\ UNCHANGED <<reads, completions>>
        BY <1>1 DEF ReaderTop, ReadBeforeClose, async
  <2> QED BY <2>1 DEF Empty
<1>2. CASE pc["reader"] = "dead"
  <2>1. ~OpenStartReader
        BY DEF OpenStartReader, SessionInv, Control, PcOK, Threads
  <2> QED BY <1>2, <2>1, EmptyStep DEF DeadIsEmpty
<1> QED BY <1>1, <1>2, ReaderEnds

\* What a session leaves for the next is a read its thread never began on: if
\* Close() gives every read thread that time, any number of sessions may follow
\* one another and there is still one callback on the port (AVRController.h:122).
THEOREM SessionsLeaveNothing ==
    Spec /\ []ReadBeforeClose => [](NothingLeftOver /\ OneCallback)
<1>1. Init => DeadIsEmpty
      BY DEF Init, DeadIsEmpty, Empty
<1>2. ASSUME SessionInv, DeadIsEmpty PROVE NothingLeftOver
      BY <1>2 DEF SessionInv, Control, ThreadsOK, DeadIsEmpty, Empty, NothingLeftOver
<1>3. Init /\ []SessionInv /\ []ReadBeforeClose /\ [][Next]_vars => []DeadIsEmpty
      BY <1>1, DeadIsEmptyStep, PTL
<1>4. Spec /\ []ReadBeforeClose => []NothingLeftOver
      BY SessionInvHolds, <1>2, <1>3, PTL DEF Spec
<1> QED BY <1>4, OneCallbackHolds, PTL

\* Then a message is only put together of two sessions' parts if the first ended
\* between them (AVRController.h:84).
THEOREM WholeAcrossSessions ==
    Spec /\ []ReadBeforeClose /\ [](pc["owner"] = "open" => m_message = NULL)
        => []AnswersAreWhole
<1>1. NothingLeftOver /\ (pc["owner"] = "open" => m_message = NULL) => CleanOpen
      BY DEF CleanOpen
<1> QED BY <1>1, SessionsLeaveNothing, AnswersAreWholeHolds, PTL

(***************************************************************************)
(* Nobody is forgotten                                                     *)
(***************************************************************************)

\* Nothing is queued behind the write thread's back: it sleeps, or is about to,
\* on an empty queue only.
SleepsOnEmpty == pc["writer"] \in {"to wait", "wait"} => m_writeQueue = <<>>

\* No read is lost: while the link runs, the read thread is there, and what it runs
\* has a read to wait for or to complete, unless it is about to install one.
AlwaysReading ==
    m_bRunning /\ pc["owner"] # "start reader" =>
        /\ pc["reader"] # "dead"
        /\ pc["reader"] \in {"top", "run"} => ~Empty

\* The write thread keeps the queue locked from its test up to its wait.
SleepOK == SleepsOnEmpty /\ (queueMutex = "writer" <=> pc["writer"] = "to wait")

LEMMA SleepStep == ASSUME SessionInv, SleepOK, [Next]_vars PROVE SleepOK'
<1> USE NameAssumption, NullAssumption
<1> USE DEF SessionInv, Control, PcOK, ThreadsOK, SleepOK, SleepsOnEmpty, Threads, Go, queue
<1>1. ASSUME NEW op \in OwnerCalls, OwnerCall(op) PROVE SleepOK'
      BY <1>1 DEF OwnerCall
<1>2. CASE CloseStop \/ CloseNotify \/ CloseJoinWriter \/ ClosePort \/ CloseJoinReader
      BY <1>2 DEF CloseStop, CloseNotify, CloseJoinWriter, ClosePort, CloseJoinReader
<1>3. CASE OpenPort \/ OpenFails \/ OpenGivesUp \/ OpenStartWriter \/ OpenStartReader
      BY <1>3 DEF OpenPort, OpenFails, OpenGivesUp, OpenStartWriter, OpenStartReader
<1>4. CASE WriterIdle \/ WriterWait
      BY <1>4 DEF WriterIdle, WriterWait
<1>5. CASE WriterExit \/ WriterTake
      BY <1>5 DEF WriterExit, WriterTake
<1>6. CASE WriterCancel \/ WriterWrite
      BY <1>6 DEF WriterCancel, WriterWrite
<1>7. CASE ReaderTop \/ ReaderOutOfWork \/ ReaderCheck \/ ReaderInstall
      BY <1>7 DEF ReaderTop, ReaderOutOfWork, ReaderCheck, ReaderInstall
<1>8. CASE ReadCallback
      BY <1>8, CallbackFrame DEF CallbackMoves
<1>9. ASSUME NEW c \in Clients, ClientCall(c) PROVE SleepOK'
      BY <1>9 DEF ClientCall
<1>10. ASSUME NEW c \in Clients, ClientSend(c) PROVE SleepOK'
  <2>1. queueMutex = NULL /\ queueMutex' = queueMutex
        BY <1>10 DEF ClientSend
  <2>2. PICK l \in {"to wait", "idle"} :
            pc' = [pc EXCEPT ![c] = l, !["writer"] = IF @ = "wait" THEN "lock" ELSE @]
        BY <1>10 DEF ClientSend
  <2>3. pc'["writer"] = IF pc["writer"] = "wait" THEN "lock" ELSE pc["writer"]
        BY <2>2
  <2> QED BY <2>1, <2>3
<1>11. ASSUME NEW c \in Clients, ClientWait(c) \/ ClientTimeout(c) \/ ClientWoken(c) PROVE SleepOK'
      BY <1>11 DEF ClientWait, ClientTimeout, ClientWoken
<1>12. CASE ArduinoAnswer \/ ArduinoPublish \/ DataArrives \/ UNCHANGED vars
      BY <1>12 DEF ArduinoAnswer, ArduinoPublish, DataArrives, vars
<1> HIDE DEF SleepOK
<1> QED BY <1>1, <1>2, <1>3, <1>4, <1>5, <1>6, <1>7, <1>8, <1>9, <1>10, <1>11, <1>12
        DEF Next, Owner, Writer, Reader, Client

LEMMA InitSleep == Init => SleepOK
<1> SUFFICES ASSUME Init PROVE SleepOK
    OBVIOUS
<1>1. pc["writer"] = "dead" /\ queueMutex = NULL
      BY NameAssumption DEF Init, Threads
<1> QED BY <1>1, NullAssumption DEF SleepOK, SleepsOnEmpty

\* No wake-up is lost to Send(): a queued message finds the write thread awake or
\* wakes it, for any number of clients (AVRController.cpp:162).
THEOREM WriterSleepsOnEmpty == Spec => []SleepsOnEmpty
<1>2. Init /\ []SessionInv /\ [][Next]_vars => []SleepOK
      BY InitSleep, SleepStep, PTL
<1>3. SleepOK => SleepsOnEmpty
      BY DEF SleepOK
<1> QED BY SessionInvHolds, <1>2, <1>3, PTL DEF Spec

LEMMA StartsReading ==
    ASSUME SessionInv, ReaderInstall \/ OpenStartReader PROVE ~Empty'
<1>1. reads \in Nat /\ completions \in Seq(Parts \cup {NULL})
      BY DEF SessionInv, TypeOK
<1>2. CASE reads' = reads + 1
  <2>1. reads' # 0
        BY <1>1, <1>2
  <2> QED BY <2>1 DEF Empty
<1>3. CASE completions' = Append(completions, NULL)
  <2>1. completions' # <<>>
        BY <1>1, <1>3, AppendProperties
  <2> QED BY <2>1 DEF Empty
<1> QED BY <1>2, <1>3 DEF ReaderInstall, OpenStartReader

\* Only a handler takes a read away: a cancelled one completes, and so does one
\* that data has arrived for.
LEMMA StaysReading ==
    ASSUME SessionInv, [Next]_vars, ~Empty, ~ReadCallback PROVE ~Empty'
<1>0. StreamTypes
      BY TypeParts DEF SessionInv
<1>1. CASE CancelReads
  <2>1. Callbacks' = Callbacks /\ Callbacks # 0
        BY <1>0, <1>1, CancelKeepsTotal, CallbacksType DEF Empty
  <2>2. Empty' => Callbacks' = 0
        BY EmptySeq DEF Empty, Callbacks
  <2> QED BY <2>1, <2>2
<1>2. CASE ReaderInstall \/ OpenStartReader
      BY <1>2, StartsReading
<1>3. CASE DataArrives
  <2>1. completions' = Append(completions, Head(line)) /\ Head(line) \in Parts
        BY <1>3, HeadTailProperties DEF DataArrives, SessionInv, TypeOK
  <2>2. completions \in Seq(Parts \cup {NULL}) /\ Head(line) \in Parts \cup {NULL}
        BY <1>0, <2>1 DEF StreamTypes
  <2>3. completions' # <<>>
        BY <2>1, <2>2, AppendProperties
  <2> QED BY <2>3 DEF Empty
<1>4. CASE UNCHANGED <<reads, completions>>
      BY <1>4 DEF Empty
<1> QED BY <1>1, <1>2, <1>3, <1>4, StreamChanges
        DEF ClosePort, OpenPort, WriterCancel, ArduinoAnswer, ArduinoPublish, async

LEMMA AlwaysReadingStep ==
    ASSUME SessionInv, AlwaysReading, [Next]_vars PROVE AlwaysReading'
<1> USE NameAssumption
<1>0. ~Empty /\ ~ReadCallback => ~Empty'
      BY StaysReading
<1> USE DEF SessionInv, Control, PcOK, ThreadsOK, AlwaysReading, Threads, Go, flags
<1>1. ASSUME NEW op \in OwnerCalls, OwnerCall(op) PROVE AlwaysReading'
  <2>1. UNCHANGED <<reads, completions>>
        BY <1>1 DEF OwnerCall, async
  <2> QED BY <1>1, <2>1 DEF OwnerCall, Empty
<1>2. CASE CloseStop \/ CloseNotify \/ CloseJoinWriter \/ ClosePort \/ CloseJoinReader
      BY <1>2 DEF CloseStop, CloseNotify, CloseJoinWriter, ClosePort, CloseJoinReader
<1>3. CASE OpenPort \/ OpenFails \/ OpenGivesUp \/ OpenStartWriter
      BY <1>3 DEF OpenPort, OpenFails, OpenGivesUp, OpenStartWriter
<1>4. CASE OpenStartReader
      BY <1>4, StartsReading DEF OpenStartReader
<1>5. CASE Writer
  <2>1. pc'["reader"] = pc["reader"]
        BY <1>5 DEF Writer, WriterIdle, WriterWait, WriterExit, WriterTake, WriterCancel,
           WriterWrite
  <2>2. ~ReadCallback
    <3>1. ReadCallback => pc["reader"] = "run" /\ pc'["reader"] = "check"
          BY CallbackFrame DEF CallbackMoves
    <3> QED BY <2>1, <3>1
  <2> QED BY <1>0, <1>5, <2>2 DEF Writer, WriterIdle, WriterWait, WriterExit, WriterTake,
             WriterCancel, WriterWrite
<1>6. CASE ReaderTop \/ ReaderOutOfWork \/ ReaderCheck
      BY <1>6 DEF ReaderTop, ReaderOutOfWork, ReaderCheck, Empty, async
<1>7. CASE ReadCallback
      BY <1>7, CallbackFrame DEF CallbackMoves
<1>8. CASE ReaderInstall
      BY <1>8, StartsReading DEF ReaderInstall
<1>9. ASSUME NEW c \in Clients, ClientCall(c) \/ Client(c) PROVE AlwaysReading'
  <2>1. UNCHANGED <<reads, completions>>
        BY <1>9 DEF ClientCall, Client, ClientSend, ClientWait, ClientTimeout, ClientWoken, async
  <2>2. UNCHANGED m_bRunning /\ pc'["reader"] = pc["reader"] /\ pc'["owner"] = pc["owner"]
        BY <1>9 DEF ClientCall, Client, ClientSend, ClientWait, ClientTimeout, ClientWoken
  <2> QED BY <2>1, <2>2 DEF Empty
<1>10. CASE ArduinoAnswer \/ ArduinoPublish \/ DataArrives \/ UNCHANGED vars
  <2>1. UNCHANGED <<m_bRunning, pc>>
        BY <1>10 DEF ArduinoAnswer, ArduinoPublish, DataArrives, vars
  <2>2. ReadCallback => pc'["reader"] = "check"
        BY CallbackFrame DEF CallbackMoves
  <2> QED BY <1>0, <2>1, <2>2
<1> HIDE DEF AlwaysReading
<1> QED BY <1>1, <1>2, <1>3, <1>4, <1>5, <1>6, <1>7, <1>8, <1>9, <1>10 DEF Next, Owner, Reader

\* A read that a write cancels is not lost: its handler runs and installs the next
\* one, however many writes there are (AVRController.cpp:241, :304).
THEOREM NoReadIsLost == Spec => []AlwaysReading
<1>1. Init => AlwaysReading
      BY DEF Init, AlwaysReading
<1>2. Init /\ []SessionInv /\ [][Next]_vars => []AlwaysReading
      BY <1>1, AlwaysReadingStep, PTL
<1> QED BY SessionInvHolds, <1>2, PTL DEF Spec

\* A closed port keeps nobody waiting.
ClosedIsQuiet == ~portOpen => reads = 0

LEMMA ClosedStep == ASSUME SessionInv, ClosedIsQuiet, [Next]_vars PROVE ClosedIsQuiet'
<1> USE DEF ClosedIsQuiet
<1>1. CASE ClosePort \/ WriterCancel
      BY <1>1 DEF ClosePort, WriterCancel, CancelReads
<1>2. CASE OpenPort
      BY <1>2 DEF OpenPort
<1>3. CASE OpenStartReader
      BY <1>3 DEF OpenStartReader, SessionInv, Control, PortOK
<1>4. CASE ReaderInstall
      BY <1>4 DEF ReaderInstall, port
<1>5. CASE DataArrives
      BY <1>5 DEF DataArrives, port
<1>6. CASE ReadCallback
      BY <1>6 DEF ReadCallback, port
<1>7. CASE reads' = reads /\ portOpen' = portOpen
      BY <1>7
<1>8. \/ ClosePort \/ OpenPort \/ WriterCancel \/ OpenStartReader \/ ReaderInstall
      \/ DataArrives \/ ReadCallback \/ reads' = reads
  <2>1. ArduinoAnswer \/ ArduinoPublish => reads' = reads
        BY DEF ArduinoAnswer, ArduinoPublish, async
  <2> QED BY <2>1, StreamChanges
<1>9. ClosePort \/ OpenPort \/ WriterCancel \/ portOpen' = portOpen
      BY FlagChanges DEF CloseStop, CloseJoinWriter, CloseJoinReader, OpenGivesUp,
         OpenStartWriter, OpenStartReader, WriterIdle, WriterWait, WriterWrite, port
<1> QED BY <1>1, <1>2, <1>3, <1>4, <1>5, <1>6, <1>7, <1>8, <1>9

\* Close() hangs in two ways only, LostNotification and a violated NoJoinDeadlock:
\* otherwise what it waits for has come, or the thread it joins can take a step
\* (AVRController.cpp:102, :105, :112), whatever the clients do and however many
\* sessions there were.
THEOREM CloseIsNotStuck == Spec => []CloseGoesOn
<1>1. Init => SleepOK /\ ClosedIsQuiet
      BY InitSleep DEF Init, ClosedIsQuiet
<1>2. ASSUME SessionInv, SleepOK, ClosedIsQuiet PROVE CloseGoesOn
  <2>1. portMutex \in {"owner", "writer", NULL} /\ queueMutex \in {"writer", NULL}
        BY <1>2 DEF SessionInv, TypeOK
  <2>2. /\ pc["writer"] \in WriterLabels /\ pc["reader"] \in ReaderLabels
        /\ portMutex = "owner" <=> pc["owner"] \in {"join reader", "start", "start reader"}
        /\ portMutex = "writer" <=> pc["writer"] = "write"
        /\ pc["owner"] \in {"lock port", "open"} => pc["writer"] = "dead"
        /\ pc["owner"] = "join reader" => ~portOpen
        /\ queueMutex = "writer" <=> pc["writer"] = "to wait"
        BY <1>2 DEF SessionInv, Control, PcOK, ThreadsOK, PortOK, SleepOK
  <2>3. pc["owner"] \in {"lock port", "open"} => portMutex = NULL
        BY <2>1, <2>2
  <2>4. pc["owner"] = "join writer" =>
            pc["writer"] = "dead" \/ WriterCanGoOn \/ LostNotification
        BY <2>1, <2>2 DEF WriterCanGoOn, LostNotification, WriterLabels
  <2>5. pc["owner"] = "join reader" =>
            pc["reader"] = "dead" \/ ReaderCanGoOn \/ ~NoJoinDeadlock
        BY <1>2, <2>2 DEF ReaderCanGoOn, NoJoinDeadlock, ReaderLabels, ClosedIsQuiet, Empty
  <2> QED BY <2>3, <2>4, <2>5 DEF CloseGoesOn
<1>3. Init /\ []SessionInv /\ [][Next]_vars => [](SleepOK /\ ClosedIsQuiet)
      BY <1>1, SleepStep, ClosedStep, PTL
<1> QED BY SessionInvHolds, <1>2, <1>3, PTL DEF Spec

(***************************************************************************)
(* One session                                                             *)
(***************************************************************************)

\* Nothing has been read yet.
Fresh == Empty /\ m_message = NULL /\ pc["reader"] = "dead"

\* Until the first session has begun nothing is read.
FirstSession ==
    /\ count["owner"] = 0 => Fresh
    /\ pc["owner"] # "idle" /\ call["owner"] # "Close" => count["owner"] > 0 /\ Fresh
    /\ pc["owner"] \in {"open", "start", "start reader"} => call["owner"] # "Close"

LEMMA FreshStep ==
    ASSUME SessionInv, Fresh, [Next]_vars, ~OpenStartReader PROVE Fresh'
<1>1. Empty' /\ pc'["reader"] = "dead"
      BY EmptyStep, ReaderStaysDead DEF Fresh
<1>2. CASE ReadCallback
      BY <1>2 DEF ReadCallback, Fresh
<1>3. CASE ~ReadCallback
  <2>1. m_message' = m_message
        BY <1>3, StreamChanges DEF ClosePort, OpenPort, OpenStartReader, WriterCancel,
           ReaderInstall, ArduinoAnswer, ArduinoPublish, DataArrives, async
  <2> QED BY <1>1, <2>1 DEF Fresh
<1> QED BY <1>2, <1>3

\* The owner's own data changes in its steps only.
LEMMA OwnerFrame ==
    ASSUME SessionInv, [Next]_vars
    PROVE  \/ \E op \in OwnerCalls : OwnerCall(op)
           \/ Owner
           \/ pc'["owner"] = pc["owner"] /\ count'["owner"] = count["owner"]
              /\ call'["owner"] = call["owner"]
<1> DEFINE Same == pc'["owner"] = pc["owner"] /\ count'["owner"] = count["owner"]
                   /\ call'["owner"] = call["owner"]
<1> USE NameAssumption DEF SessionInv, Control, PcOK, Threads, Go, calls
<1>1. CASE Writer
      BY <1>1 DEF Writer, WriterIdle, WriterWait, WriterExit, WriterTake, WriterCancel,
         WriterWrite
<1>2. CASE ReadCallback
      BY <1>2, CallbackFrame DEF CallbackMoves
<1>3. CASE ReaderTop \/ ReaderOutOfWork \/ ReaderCheck \/ ReaderInstall
      BY <1>3 DEF ReaderTop, ReaderOutOfWork, ReaderCheck, ReaderInstall
<1>4. ASSUME NEW c \in Clients, ClientCall(c) PROVE Same
  <2>1. c # "owner"
        OBVIOUS
  <2>2. pc'["owner"] = pc["owner"]
        BY <1>4 DEF ClientCall
  <2>3. count' = [count EXCEPT ![c] = @ + 1] /\ \E op : call' = [call EXCEPT ![c] = op]
        BY <1>4 DEF ClientCall
  <2>4. count \in [Threads -> 0 .. MaxOpens + MaxCalls] /\ "owner" \in Threads /\ DOMAIN call = Threads
        BY DEF TypeOK
  <2> QED BY <2>1, <2>2, <2>3, <2>4
<1>5. ASSUME NEW c \in Clients, Client(c) PROVE Same
      BY <1>5 DEF Client, ClientSend, ClientWait, ClientTimeout, ClientWoken
<1>6. CASE ArduinoAnswer \/ ArduinoPublish \/ DataArrives \/ UNCHANGED vars
      BY <1>6 DEF ArduinoAnswer, ArduinoPublish, DataArrives, vars
<1> QED BY <1>1, <1>2, <1>3, <1>4, <1>5, <1>6 DEF Next, Reader

LEMMA FirstSessionStep ==
    ASSUME MaxOpens <= 1, SessionInv, FirstSession, [Next]_vars PROVE FirstSession'
<1>0. count \in [Threads -> 0 .. MaxOpens + MaxCalls] /\ "owner" \in Threads /\ DOMAIN call = Threads
      BY DEF SessionInv, TypeOK, Threads
<1>1. count["owner"] \in Nat /\ MaxOpens \in Nat
      BY <1>0, CallAssumption
<1>2. Fresh /\ ~OpenStartReader => Fresh'
      BY FreshStep
<1>3. ASSUME NEW op \in OwnerCalls, OwnerCall(op) PROVE FirstSession'
  <2>1. /\ pc["owner"] = "idle" /\ pc'["owner"] = "stop" /\ call'["owner"] = op
        /\ op # "Close" => count["owner"] < MaxOpens
        /\ count'["owner"] = count["owner"] + IF op = "Close" THEN 0 ELSE 1
        BY <1>0, <1>3 DEF OwnerCall, Go, SessionInv, Control, PcOK
  <2>2. ~OpenStartReader
        BY <2>1 DEF OpenStartReader
  <2>3. CASE op = "Close"
        BY <1>1, <1>2, <2>1, <2>2, <2>3 DEF FirstSession
  <2>4. CASE op # "Close"
    <3>1. count["owner"] = 0 /\ count'["owner"] = 1
          BY <1>1, <2>1, <2>4
    <3> QED BY <1>2, <2>1, <2>2, <2>4, <3>1 DEF FirstSession
  <2> QED BY <2>3, <2>4
<1>4. CASE OpenStartReader
  <2>1. pc["owner"] = "start reader" /\ pc'["owner"] = "idle" /\ count' = count
        BY <1>4 DEF OpenStartReader, calls, SessionInv, Control, PcOK, Threads
  <2>2. count["owner"] > 0
        BY <2>1 DEF FirstSession
  <2>3. count["owner"] # 0
        BY <2>2
  <2> QED BY <2>1, <2>3 DEF FirstSession
<1>5. ASSUME Owner, ~OpenStartReader PROVE FirstSession'
  <2>1. count' = count /\ call' = call
        BY <1>5 DEF Owner, CloseStop, CloseNotify, CloseJoinWriter, ClosePort, CloseJoinReader,
                    OpenPort, OpenFails, OpenGivesUp, OpenStartWriter, calls
  <2>2. /\ pc["owner"] # "idle"
        /\ pc'["owner"] = "open" => call["owner"] # "Close"
        /\ pc'["owner"] \in {"start", "start reader"} => pc["owner"] \in {"open", "start"}
        BY <1>5 DEF Owner, CloseStop, CloseNotify, CloseJoinWriter, ClosePort, CloseJoinReader,
                    OpenPort, OpenFails, OpenGivesUp, OpenStartWriter, Go,
                    SessionInv, Control, PcOK, Threads
  <2> QED BY <1>2, <1>5, <2>1, <2>2 DEF FirstSession
<1>6. ASSUME pc'["owner"] = pc["owner"], count'["owner"] = count["owner"],
             call'["owner"] = call["owner"], ~OpenStartReader
      PROVE  FirstSession'
      BY <1>2, <1>6 DEF FirstSession
<1> QED BY <1>3, <1>4, <1>5, <1>6, OwnerFrame

\* A program that opens the port once opens it with nothing left over: the two
\* theorems above hold of it without their hypothesis.
THEOREM OneSessionIsClean ==
    ASSUME MaxOpens <= 1 PROVE Spec => [](CleanOpen /\ OneCallback /\ AnswersAreWhole)
<1>1. Init => FirstSession
      BY NameAssumption DEF Init, FirstSession, Fresh, Empty, Threads
<1>2. ASSUME SessionInv, FirstSession, [Next]_vars PROVE FirstSession'
      BY <1>2, FirstSessionStep
<1>3. FirstSession => CleanOpen
      BY DEF FirstSession, Fresh, Empty, CleanOpen, NothingLeftOver
<1>4. CleanOpen => NothingLeftOver
      BY DEF CleanOpen
<1>5. Init /\ []SessionInv /\ [][Next]_vars => []FirstSession
      BY <1>1, <1>2, PTL
<1>6. Spec => []CleanOpen
      BY SessionInvHolds, <1>3, <1>5, PTL DEF Spec
<1> QED BY <1>4, <1>6, OneCallbackHolds, AnswersAreWholeHolds, PTL

(***************************************************************************)
(* The parser, byte by byte                                                *)
(***************************************************************************)

Bytes == Seq(Byte)

\* Induction over the numbers up to a bound, for a set S instead of a predicate:
\* the least number outside S would have a predecessor in it.
LEMMA SetInduction ==
    ASSUME NEW N \in Nat, NEW S, 0 \in S, \A n \in 0 .. N - 1 : n \in S => n + 1 \in S
    PROVE  0 .. N \subseteq S
<1> SUFFICES ASSUME ~(0 .. N \subseteq S) PROVE FALSE
  OBVIOUS
<1> DEFINE less == {p \in Nat \X Nat : p[1] < p[2]}
           T == {n \in 0 .. N : n \notin S}
<1>1. T \in SUBSET Nat /\ T # {}
  OBVIOUS
<1>2. IsWellFoundedOn(less, Nat)
  <2>1. OpToRel(<, Nat) = less
    BY DEF OpToRel
  <2> QED
    BY <2>1, NatLessThanWellFounded
<1> HIDE DEF less
<1>3. PICK x \in T : \A y \in T : ~(<<y, x>> \in less)
  BY <1>1, <1>2, WFMin
<1>4. \A y \in T : ~(y < x)
  BY <1>1, <1>3 DEF less
<1>5. /\ x \in 0 .. N /\ x \notin S /\ x # 0
      /\ \A n \in 0 .. N : n \notin S => ~(n < x)
  BY <1>4
<1> HIDE DEF T
<1>6. x - 1 \in 0 .. N - 1 /\ x - 1 \in 0 .. N /\ x - 1 < x /\ (x - 1) + 1 = x
  BY <1>5
<1>7. x - 1 \in S
  BY <1>5, <1>6
<1> QED
  BY <1>5, <1>6, <1>7

\* The length word at position k, and whether a message may have that length.
Word(s, k) == s[k] + Base * s[k + 1]
Valid(n) == 3 <= n /\ n <= MAX_LENGTH

\* One step of Frames: the messages of s from position k on, g being those from
\* later positions on.
FramesAt(g, s, k) ==
    IF k >= Len(s) THEN <<>>
    ELSE IF ~Valid(Word(s, k)) THEN g[k + 2]
    ELSE IF k + Word(s, k) > Len(s) + 1 THEN <<>>
    ELSE <<SubSeq(s, k, k + Word(s, k) - 1)>> \o g[k + Word(s, k)]

FramesFrom(s) == CHOOSE g : g = [k \in 1 .. Len(s) + 1 |-> FramesAt(g, s, k)]

LEMMA FramesChooses == \A s : Frames(s) = FramesFrom(s)[1]
BY DEF Frames, FramesFrom, FramesAt, Word, Valid

LEMMA WordType ==
    ASSUME NEW s \in Bytes, NEW k \in 1 .. Len(s) - 1
    PROVE  Word(s, k) \in Nat
<1>1. Len(s) \in Nat
      BY LenProperties DEF Bytes
<1>2. s[k] \in Byte /\ s[k + 1] \in Byte
      BY <1>1, ElementOfSeq DEF Bytes
<1>3. s[k] \in Nat /\ s[k + 1] \in Nat /\ Base \in Nat
      BY <1>2, ParserAssumption DEF Byte
<1>4. Base * s[k + 1] \in Nat
      BY <1>3
<1> QED BY <1>3, <1>4 DEF Word

\* A step of Frames looks at later positions only.
LEMMA FramesLocal ==
    ASSUME NEW s \in Bytes, NEW k \in 1 .. Len(s) + 1, NEW g, NEW h,
           \A j \in k + 1 .. Len(s) + 1 : g[j] = h[j]
    PROVE  FramesAt(g, s, k) = FramesAt(h, s, k)
<1>1. Len(s) \in Nat
      BY LenProperties DEF Bytes
<1>2. CASE k >= Len(s)
      BY <1>2 DEF FramesAt
<1>3. CASE ~ (k >= Len(s))
  <2> DEFINE n == Word(s, k)
  <2>1. n \in Nat /\ k \in 1 .. Len(s) - 1
        BY <1>1, <1>3, WordType
  <2>2. k + 2 \in k + 1 .. Len(s) + 1
        BY <1>1, <2>1
  <2>3. Valid(n) => n >= 3
        BY <2>1 DEF Valid
  <2> HIDE DEF n
  <2>4. Valid(n) /\ ~ (k + n > Len(s) + 1) => k + n \in k + 1 .. Len(s) + 1
        BY <1>1, <2>1, <2>3
  <2>5. /\ g[k + 2] = h[k + 2]
        /\ Valid(n) /\ ~ (k + n > Len(s) + 1) => g[k + n] = h[k + n]
        BY <2>2, <2>4
  <2> QED BY <2>5 DEF FramesAt, n
<1> QED BY <1>2, <1>3

\* Frames is well defined.
LEMMA FramesExist ==
    ASSUME NEW s \in Bytes
    PROVE  \E g : g = [k \in 1 .. Len(s) + 1 |-> FramesAt(g, s, k)]
<1> DEFINE N == Len(s) + 1
           S == {d \in 0 .. N : \E g : \A k \in N - d + 1 .. N : g[k] = FramesAt(g, s, k)}
<1>1. N \in Nat /\ N >= 1
      BY LenProperties DEF Bytes
<1>2. 0 \in S
  <2>1. \A k \in N - 0 + 1 .. N : FALSE
        BY <1>1
  <2> QED BY <1>1, <2>1
<1>3. ASSUME NEW d \in 0 .. N - 1, d \in S
      PROVE  d + 1 \in S
  <2>1. PICK g : \A k \in N - d + 1 .. N : g[k] = FramesAt(g, s, k)
        BY <1>3
  <2> DEFINE m == N - d
             first == FramesAt(g, s, m)
             h == [k \in m .. N |-> IF k = m THEN first ELSE g[k]]
  <2>2. /\ m \in 1 .. N /\ d + 1 \in 0 .. N
        /\ N - (d + 1) + 1 = m /\ N - d + 1 = m + 1
        BY <1>1
  <2> HIDE DEF m, first
  <2>3. h[m] = first /\ \A k \in m + 1 .. N : h[k] = g[k]
        BY <1>1, <2>2
  <2> HIDE DEF h
  <2>4. ASSUME NEW k \in m .. N
        PROVE  h[k] = FramesAt(h, s, k)
    <3>1. k \in 1 .. Len(s) + 1 /\ (k = m \/ k \in m + 1 .. N)
          BY <1>1, <2>2
    <3>2. \A j \in k + 1 .. Len(s) + 1 : h[j] = g[j]
          BY <1>1, <2>2, <2>3
    <3> HIDE DEF N
    <3>3. FramesAt(h, s, k) = FramesAt(g, s, k)
          BY <3>1, <3>2, FramesLocal
    <3>4. CASE k = m
          BY <2>3, <3>3, <3>4 DEF first
    <3>5. CASE k \in m + 1 .. N
          BY <2>1, <2>2, <2>3, <3>3, <3>5
    <3> QED BY <3>1, <3>4, <3>5
  <2> QED BY <2>2, <2>4
<1> HIDE DEF S
<1>4. N \in S
  <2>1. 0 .. N \subseteq S
        BY <1>1, <1>2, <1>3, SetInduction
  <2> QED BY <1>1, <2>1
<1>5. PICK g : \A k \in N - N + 1 .. N : g[k] = FramesAt(g, s, k)
      BY <1>4 DEF S
<1> DEFINE h == [k \in 1 .. N |-> g[k]]
<1>6. ASSUME NEW k \in 1 .. N
      PROVE  g[k] = FramesAt(h, s, k)
  <2>1. k \in N - N + 1 .. N
        BY <1>1
  <2>2. g[k] = FramesAt(g, s, k)
        BY <1>5, <2>1
  <2>3. \A j \in k + 1 .. Len(s) + 1 : g[j] = h[j]
        BY <1>1
  <2>4. k \in 1 .. Len(s) + 1
        OBVIOUS
  <2> HIDE DEF h, N
  <2>5. FramesAt(g, s, k) = FramesAt(h, s, k)
        BY <2>3, <2>4, FramesLocal
  <2> QED BY <2>2, <2>5
<1>7. h = [k \in 1 .. N |-> FramesAt(h, s, k)]
  <2> DEFINE body(k) == FramesAt(h, s, k)
  <2> HIDE DEF body
  <2>1. h = [k \in 1 .. N |-> body(k)]
        BY <1>6 DEF body
  <2> QED BY <2>1 DEF body
<1> QED BY <1>7

LEMMA FramesUnfold ==
    ASSUME NEW s \in Bytes, NEW k \in 1 .. Len(s) + 1
    PROVE  FramesFrom(s)[k] = FramesAt(FramesFrom(s), s, k)
<1> DEFINE g == FramesFrom(s)
<1>1. g = [j \in 1 .. Len(s) + 1 |-> FramesAt(g, s, j)]
      BY FramesExist DEF FramesFrom
<1> HIDE DEF g
<1>2. g[k] = FramesAt(g, s, k)
      BY <1>1
<1> QED BY <1>2 DEF g
LEMMA FramesType ==
    ASSUME NEW s \in Bytes, NEW k \in 1 .. Len(s) + 1
    PROVE  FramesFrom(s)[k] \in Seq(Bytes)
<1> DEFINE N == Len(s) + 1
           g == FramesFrom(s)
           S == {d \in 0 .. N : \A j \in N - d + 1 .. N : g[j] \in Seq(Bytes)}
<1>1. N \in Nat /\ N >= 1
      BY LenProperties DEF Bytes
<1>2. 0 \in S
  <2>1. \A j \in N - 0 + 1 .. N : FALSE
        BY <1>1
  <2> QED BY <1>1, <2>1
<1>3. ASSUME NEW d \in 0 .. N - 1, d \in S
      PROVE  d + 1 \in S
  <2> DEFINE m == N - d
  <2>1. \A j \in m + 1 .. N : g[j] \in Seq(Bytes)
        BY <1>1, <1>3
  <2>2. m \in 1 .. Len(s) + 1 /\ d + 1 \in 0 .. N /\ N - (d + 1) + 1 = m
        BY <1>1
  <2>3. g[m] = FramesAt(g, s, m)
        BY <2>2, FramesUnfold
  <2> DEFINE n == Word(s, m)
  <2>9. g[m] \in Seq(Bytes) => d + 1 \in S
    <3>1. \A j \in N - (d + 1) + 1 .. N : j = m \/ j \in m + 1 .. N
          BY <1>1, <2>2
    <3> HIDE DEF g, m
    <3>2. g[m] \in Seq(Bytes) => \A j \in N - (d + 1) + 1 .. N : g[j] \in Seq(Bytes)
          BY <2>1, <3>1
    <3> QED BY <2>2, <3>2
  <2> HIDE DEF S
  <2>4. CASE m >= Len(s)
    <3>1. g[m] = <<>>
          BY <2>3, <2>4 DEF FramesAt
    <3> QED BY <2>9, <3>1, EmptySeq
  <2>5. CASE ~ (m >= Len(s))
    <3>1. n \in Nat /\ m \in 1 .. Len(s) - 1
          BY <1>1, <2>2, <2>5, WordType
    <3> HIDE DEF n, g
    <3>2. CASE ~Valid(n)
      <4>1. m + 2 \in m + 1 .. N
            BY <1>1, <3>1
      <4>2. g[m] = g[m + 2]
            BY <2>3, <2>5, <3>2 DEF FramesAt, n
      <4>3. g[m] \in Seq(Bytes)
            BY <2>1, <4>1, <4>2
      <4> QED BY <2>9, <4>3
    <3>3. CASE Valid(n) /\ m + n > Len(s) + 1
      <4>1. g[m] = <<>>
            BY <2>3, <2>5, <3>3 DEF FramesAt, n
      <4> QED BY <2>9, <4>1, EmptySeq
    <3>4. CASE Valid(n) /\ ~ (m + n > Len(s) + 1)
      <4>1. n >= 3
            BY <3>1, <3>4 DEF Valid
      <4>2. m + n \in m + 1 .. N /\ m + n - 1 \in Nat /\ m + n - 1 <= Len(s)
            BY <1>1, <3>1, <3>4, <4>1
      <4> DEFINE msg == SubSeq(s, m, m + n - 1)
      <4>3. msg \in Bytes
        <5>1. \A j \in m .. m + n - 1 : j \in 1 .. Len(s)
              BY <1>1, <3>1, <4>2
        <5>2. \A j \in m .. m + n - 1 : s[j] \in Byte
              BY <5>1, ElementOfSeq DEF Bytes
        <5>3. m \in Int /\ m + n - 1 \in Int
              BY <3>1, <4>2
        <5> QED BY <5>2, <5>3, SubSeqProperties DEF Bytes
      <4>4. g[m] = <<msg>> \o g[m + n]
            BY <2>3, <2>5, <3>4 DEF FramesAt, n
      <4> HIDE DEF msg
      <4>5. <<msg>> \in Seq(Bytes) /\ g[m + n] \in Seq(Bytes)
            BY <2>1, <4>2, <4>3
      <4>6. g[m] \in Seq(Bytes)
            BY <4>4, <4>5, ConcatProperties
      <4> QED BY <2>9, <4>6
    <3> QED BY <3>2, <3>3, <3>4
  <2> QED BY <2>4, <2>5
<1> HIDE DEF S
<1>4. N \in S
  <2>1. 0 .. N \subseteq S
        BY <1>1, <1>2, <1>3, SetInduction
  <2> QED BY <1>1, <2>1
<1>5. k \in N - N + 1 .. N
      BY <1>1
<1> QED BY <1>4, <1>5 DEF S

-----------------------------------------------------------------------------
(* What the parser has in hand, and what is still to be found in the stream *)

\* m is the end of s.
Ends(s, m) ==
    /\ s \in Bytes /\ m \in Bytes
    /\ Len(m) <= Len(s)
    /\ \A j \in 1 .. Len(m) : m[j] = s[Len(s) - Len(m) + j]

\* Whatever comes behind s, the messages found are ms and those that begin where
\* m, the end of s, begins.
CutAt(s, m, ms) ==
    /\ ms \in Seq(Bytes)
    /\ \A t \in Bytes :
         Frames(s \o t) = ms \o FramesFrom(s \o t)[Len(s) - Len(m) + 1]

LEMMA EndsExtend ==
    ASSUME NEW s, NEW m, Ends(s, m), NEW bytes \in Bytes
    PROVE  /\ Ends(s \o bytes, m \o bytes)
           /\ Len(m \o bytes) = Len(m) + Len(bytes)
           /\ \A j \in 1 .. Len(m) : (m \o bytes)[j] = m[j]
<1>1. /\ s \in Bytes /\ m \in Bytes
      /\ Len(s) \in Nat /\ Len(m) \in Nat /\ Len(bytes) \in Nat
      /\ Len(m) <= Len(s)
      /\ \A j \in 1 .. Len(m) : m[j] = s[Len(s) - Len(m) + j]
      BY LenProperties DEF Ends, Bytes
<1> DEFINE s2 == s \o bytes
           m2 == m \o bytes
<1>2. /\ s2 \in Bytes /\ Len(s2) = Len(s) + Len(bytes)
      /\ \A j \in 1 .. Len(s) + Len(bytes) :
           s2[j] = IF j <= Len(s) THEN s[j] ELSE bytes[j - Len(s)]
      BY <1>1, ConcatProperties DEF Bytes
<1>3. /\ m2 \in Bytes /\ Len(m2) = Len(m) + Len(bytes)
      /\ \A j \in 1 .. Len(m) + Len(bytes) :
           m2[j] = IF j <= Len(m) THEN m[j] ELSE bytes[j - Len(m)]
      BY <1>1, ConcatProperties DEF Bytes
<1> HIDE DEF s2, m2
<1>4. ASSUME NEW j \in 1 .. Len(m2)
      PROVE  m2[j] = s2[Len(s2) - Len(m2) + j]
  <2> DEFINE k == Len(s2) - Len(m2) + j
  <2>1. /\ k = Len(s) - Len(m) + j /\ k \in 1 .. Len(s) + Len(bytes)
        /\ j \in 1 .. Len(m) + Len(bytes)
        /\ (j <= Len(m) <=> k <= Len(s)) /\ k - Len(s) = j - Len(m)
        BY <1>1, <1>2, <1>3
  <2> HIDE DEF k
  <2>2. CASE j <= Len(m)
    <3>1. j \in 1 .. Len(m)
          BY <1>1, <2>1, <2>2
    <3> QED BY <1>1, <1>2, <1>3, <2>1, <2>2, <3>1 DEF k
  <2>3. CASE ~ (j <= Len(m))
        BY <1>2, <1>3, <2>1, <2>3 DEF k
  <2> QED BY <2>2, <2>3
<1>5. Len(m2) <= Len(s2)
      BY <1>1, <1>2, <1>3
<1>6. \A j \in 1 .. Len(m) : m2[j] = m[j]
  <2>1. \A j \in 1 .. Len(m) : j \in 1 .. Len(m) + Len(bytes) /\ j <= Len(m)
        BY <1>1
  <2> QED BY <1>3, <2>1
<1> QED BY <1>2, <1>3, <1>4, <1>5, <1>6 DEF Ends, s2, m2

LEMMA CutExtend ==
    ASSUME NEW s, NEW m, Ends(s, m), NEW ms, CutAt(s, m, ms), NEW bytes \in Bytes
    PROVE  CutAt(s \o bytes, m \o bytes, ms)
<1>1. /\ s \in Bytes /\ m \in Bytes
      /\ Len(s) \in Nat /\ Len(m) \in Nat /\ Len(bytes) \in Nat
      BY LenProperties DEF Ends, Bytes
<1>2. /\ Len(s \o bytes) = Len(s) + Len(bytes)
      /\ Len(m \o bytes) = Len(m) + Len(bytes)
      BY <1>1, ConcatProperties DEF Bytes
<1>3. Len(s \o bytes) - Len(m \o bytes) + 1 = Len(s) - Len(m) + 1
      BY <1>1, <1>2
<1>4. ASSUME NEW t \in Bytes
      PROVE  Frames((s \o bytes) \o t)
               = ms \o FramesFrom((s \o bytes) \o t)[Len(s) - Len(m) + 1]
  <2>1. (s \o bytes) \o t = s \o (bytes \o t) /\ bytes \o t \in Bytes
        BY <1>1, ConcatAssociative, ConcatProperties DEF Bytes
  <2> QED BY <2>1 DEF CutAt
<1> QED BY <1>3, <1>4 DEF CutAt

\* m is in s behind place k.
Placed(m, s, k) == \A j \in 1 .. Len(m) : m[j] = s[k + j]

\* What is at the end of s stays where it is, whatever comes behind.
LEMMA PlaceInStream ==
    ASSUME NEW s, NEW m, Ends(s, m), NEW t \in Bytes
    PROVE  /\ s \o t \in Bytes
           /\ Len(s \o t) \in Nat /\ Len(s) \in Nat /\ Len(m) \in Nat
           /\ Len(s) <= Len(s \o t) /\ Len(m) <= Len(s)
           /\ Len(s) - Len(m) + 1 \in 1 .. Len(s \o t) + 1
           /\ Placed(m, s \o t, Len(s) - Len(m))
<1>1. /\ s \in Bytes /\ m \in Bytes
      /\ Len(s) \in Nat /\ Len(m) \in Nat /\ Len(t) \in Nat
      /\ Len(m) <= Len(s)
      /\ \A j \in 1 .. Len(m) : m[j] = s[Len(s) - Len(m) + j]
      BY LenProperties DEF Ends, Bytes
<1>2. /\ s \o t \in Bytes /\ Len(s \o t) = Len(s) + Len(t)
      /\ \A j \in 1 .. Len(s) + Len(t) :
           (s \o t)[j] = IF j <= Len(s) THEN s[j] ELSE t[j - Len(s)]
      BY <1>1, ConcatProperties DEF Bytes
<1>3. \A j \in 1 .. Len(m) : /\ Len(s) - Len(m) + j \in 1 .. Len(s) + Len(t)
                             /\ Len(s) - Len(m) + j <= Len(s)
      BY <1>1
<1>4. Placed(m, s \o t, Len(s) - Len(m))
      BY <1>1, <1>2, <1>3 DEF Placed
<1> QED BY <1>1, <1>2, <1>4

\* ... its length word too.
LEMMA WordInStream ==
    ASSUME NEW s, NEW m, Ends(s, m), Len(m) >= 2, NEW t \in Bytes
    PROVE  /\ Word(s \o t, Len(s) - Len(m) + 1) = Word(m, 1)
           /\ Word(m, 1) \in Nat
           /\ ~ (Len(s) - Len(m) + 1 >= Len(s \o t))
<1> DEFINE u == s \o t
           k == Len(s) - Len(m)
<1>1. /\ Len(u) \in Nat /\ Len(s) \in Nat /\ Len(m) \in Nat
      /\ Len(s) <= Len(u) /\ Len(m) <= Len(s)
      /\ Placed(m, u, k)
      BY PlaceInStream
<1>2. /\ 1 \in 1 .. Len(m) /\ 2 \in 1 .. Len(m) /\ 1 \in 1 .. Len(m) - 1
      /\ (k + 1) + 1 = k + 2 /\ 1 + 1 = 2 /\ ~ (k + 1 >= Len(u))
      BY <1>1
<1> HIDE DEF u, k
<1>3. m[1] = u[k + 1] /\ m[2] = u[k + 2]
      BY <1>1, <1>2 DEF Placed
<1>4. Word(u, k + 1) = Word(m, 1)
      BY <1>2, <1>3 DEF Word
<1>5. Word(m, 1) \in Nat
      BY <1>2, WordType DEF Ends
<1> QED BY <1>2, <1>4, <1>5 DEF u, k

LEMMA EndsEmpty ==
    ASSUME NEW s \in Bytes
    PROVE  Ends(s, <<>>) /\ Len(<<>>) = 0
BY EmptySeq, LenProperties DEF Ends, Bytes

\* A length that cannot be is skipped by both.
LEMMA CutSkip ==
    ASSUME NEW s, NEW m, Ends(s, m), NEW ms, CutAt(s, m, ms),
           Len(m) = 2, ~Valid(Word(m, 1))
    PROVE  CutAt(s, <<>>, ms)
<1> SUFFICES ASSUME NEW t \in Bytes
             PROVE  Frames(s \o t) = ms \o FramesFrom(s \o t)[Len(s) - 0 + 1]
    BY EndsEmpty DEF CutAt, Ends
<1> DEFINE u == s \o t
           b == Len(s) - Len(m) + 1
<1>1. u \in Bytes /\ b \in 1 .. Len(u) + 1 /\ Len(s) \in Nat
      BY PlaceInStream
<1>2. Word(u, b) = Word(m, 1) /\ ~ (b >= Len(u))
  <2>1. Len(m) >= 2
        OBVIOUS
  <2> QED BY <2>1, WordInStream
<1>3. b + 2 = Len(s) - 0 + 1
      BY <1>1
<1>4. Frames(u) = ms \o FramesFrom(u)[b]
      BY DEF CutAt
<1> HIDE DEF u, b
<1>5. FramesFrom(u)[b] = FramesFrom(u)[b + 2]
      BY <1>1, <1>2, FramesUnfold DEF FramesAt
<1> QED BY <1>3, <1>4, <1>5 DEF u

\* A message that is complete is the next one found.
LEMMA CutTake ==
    ASSUME NEW s, NEW m, Ends(s, m), NEW ms, CutAt(s, m, ms),
           Len(m) >= 2, Valid(Word(m, 1)), Len(m) = Word(m, 1)
    PROVE  CutAt(s, <<>>, Append(ms, m))
<1>1. m \in Bytes /\ ms \in Seq(Bytes) /\ s \in Bytes
      BY DEF Ends, CutAt
<1>2. Append(ms, m) = ms \o <<m>> /\ <<m>> \in Seq(Bytes) /\ Append(ms, m) \in Seq(Bytes)
      BY <1>1, AppendProperties, AppendIsConcat
<1> SUFFICES ASSUME NEW t \in Bytes
             PROVE  Frames(s \o t)
                      = Append(ms, m) \o FramesFrom(s \o t)[Len(s) - 0 + 1]
    BY <1>1, <1>2, EndsEmpty DEF CutAt
<1> DEFINE u == s \o t
           n == Len(m)
           b == Len(s) - n + 1
<1>3. /\ u \in Bytes /\ b \in 1 .. Len(u) + 1
      /\ Len(s) \in Nat /\ n \in Nat /\ Len(u) \in Nat
      /\ Len(s) <= Len(u) /\ n <= Len(s)
      BY PlaceInStream
<1>10. \A j \in 1 .. n : m[j] = u[Len(s) - n + j]
  <2>1. Placed(m, u, Len(s) - n)
        BY PlaceInStream
  <2> QED BY <2>1 DEF Placed
<1>4. Word(u, b) = n /\ ~ (b >= Len(u))
      BY WordInStream
<1>5. Frames(u) = ms \o FramesFrom(u)[b]
      BY DEF CutAt
<1>6. /\ b + n = Len(s) - 0 + 1 /\ ~ (b + n > Len(u) + 1)
      /\ b + n \in 1 .. Len(u) + 1 /\ b \in Int /\ b + n - 1 \in Int /\ b <= b + n - 1
      /\ (b + n - 1) - b + 1 = n
      /\ \A j \in 1 .. n : b + j - 1 = Len(s) - n + j
      /\ \A j \in b .. b + n - 1 : j \in 1 .. Len(u)
  <2>1. n >= 2
        OBVIOUS
  <2> DEFINE x == Len(u)
             y == Len(s)
  <2> HIDE DEF n, x, y
  <2>2. x \in Nat /\ y \in Nat /\ n \in Nat /\ y <= x /\ n <= y
        BY <1>3 DEF x, y
  <2> QED BY <2>1, <2>2 DEF x, y
<1> HIDE DEF u, b, n
<1>7. SubSeq(u, b, b + n - 1) = m
  <2>1. \A j \in b .. b + n - 1 : u[j] \in Byte
        BY <1>3, <1>6, ElementOfSeq DEF Bytes
  <2> DEFINE w == SubSeq(u, b, b + n - 1)
  <2>2. /\ w \in Seq(Byte) /\ Len(w) = n
        /\ \A j \in 1 .. n : w[j] = u[b + j - 1]
        BY <1>6, <2>1, SubSeqProperties
  <2> HIDE DEF w
  <2>3. ASSUME NEW j \in 1 .. n PROVE w[j] = m[j]
    <3>1. w[j] = u[b + j - 1] /\ m[j] = u[Len(s) - n + j]
          BY <1>10, <2>2
    <3>2. b + j - 1 = Len(s) - n + j
          BY <1>6
    <3> QED BY <3>1, <3>2
  <2>4. w = m
        BY <1>1, <2>2, <2>3, SeqEqual DEF Bytes, n
  <2> QED BY <2>4 DEF w
<1>8. FramesFrom(u)[b] = <<m>> \o FramesFrom(u)[b + n]
  <2>1. Valid(Word(u, b)) /\ ~ (b + Word(u, b) > Len(u) + 1)
        BY <1>4, <1>6 DEF n
  <2>2. FramesFrom(u)[b] =
          <<SubSeq(u, b, b + Word(u, b) - 1)>> \o FramesFrom(u)[b + Word(u, b)]
        BY <1>3, <1>4, <2>1, FramesUnfold DEF FramesAt
  <2> QED BY <1>4, <1>7, <2>2
<1>9. ms \o (<<m>> \o FramesFrom(u)[b + n]) = (ms \o <<m>>) \o FramesFrom(u)[b + n]
  <2>1. FramesFrom(u)[b + n] \in Seq(Bytes)
        BY <1>3, <1>6, FramesType
  <2> DEFINE r == FramesFrom(u)[b + n]
  <2> DEFINE one == <<m>>
  <2>2. r \in Seq(Bytes) /\ one \in Seq(Bytes)
        BY <1>2, <2>1
  <2> HIDE DEF r, one
  <2>3. (ms \o one) \o r = ms \o (one \o r)
        BY ONLY <1>1, <2>2, ConcatAssociative
  <2> QED BY <2>3 DEF r, one
<1> QED BY <1>2, <1>5, <1>6, <1>8, <1>9 DEF u

\* Nothing is found in a message that is not complete.
LEMMA CutEnd ==
    ASSUME NEW s, NEW m, Ends(s, m), NEW ms, CutAt(s, m, ms),
           Len(m) < 2 \/ (Valid(Word(m, 1)) /\ Len(m) < Word(m, 1))
    PROVE  Frames(s) = ms
<1> DEFINE b == Len(s) - Len(m) + 1
<1>1. s \in Bytes /\ <<>> \in Bytes /\ ms \in Seq(Bytes)
      BY EmptySeq DEF Ends, CutAt, Bytes
<1>2. s \o <<>> = s /\ ms \o <<>> = ms
      BY <1>1, ConcatEmptySeq DEF Bytes
<1>3. /\ b \in 1 .. Len(s) + 1 /\ Len(s) \in Nat /\ Len(m) \in Nat /\ Len(m) <= Len(s)
      BY <1>1, <1>2, PlaceInStream
<1>4. Frames(s) = ms \o FramesFrom(s)[b]
      BY <1>1, <1>2 DEF CutAt
<1>5. FramesFrom(s)[b] = FramesAt(FramesFrom(s), s, b)
      BY <1>1, <1>3, FramesUnfold
<1>6. CASE Len(m) < 2
  <2>1. b >= Len(s)
        BY <1>3, <1>6
  <2> QED BY <1>2, <1>4, <1>5, <2>1 DEF FramesAt
<1>7. CASE Len(m) >= 2 /\ Valid(Word(m, 1)) /\ Len(m) < Word(m, 1)
  <2>1. Word(s, b) = Word(m, 1) /\ Word(m, 1) \in Nat /\ ~ (b >= Len(s))
        BY <1>1, <1>2, <1>7, WordInStream
  <2>2. b + Word(m, 1) > Len(s) + 1
        BY <1>3, <1>7, <2>1
  <2> QED BY <1>2, <1>4, <1>5, <1>7, <2>1, <2>2 DEF FramesAt
<1> QED BY <1>3, <1>6, <1>7
\* What the parser waits for, by what it has of the message in hand.
StateOK ==
    \/ /\ m_readState = "WaitingForLength"
       /\ m_msg = <<>> /\ m_nextBufferLength = 2
    \/ /\ m_readState = "WaitingForLengthPt2"
       /\ Len(m_msg) = 1 /\ m_nextBufferLength = 1
    \/ /\ m_readState = "WaitingForMessage"
       /\ Len(m_msg) >= 2 /\ Valid(Word(m_msg, 1))
       /\ m_msgLength = Word(m_msg, 1)
       /\ Len(m_msg) < m_msgLength
       /\ m_nextBufferLength = m_msgLength - Len(m_msg)

ParserInv ==
    /\ Ends(stream, m_msg)
    /\ CutAt(stream, m_msg, messages)
    /\ StateOK

LEMMA InitParser == ParserInit => ParserInv
<1> SUFFICES ASSUME ParserInit PROVE ParserInv
    OBVIOUS
<1>1. stream = <<>> /\ m_msg = <<>> /\ messages = <<>>
      BY DEF ParserInit
<1>2. <<>> \in Bytes /\ <<>> \in Seq(Bytes) /\ Len(<<>>) = 0
      BY EmptySeq DEF Bytes
<1>3. ASSUME NEW t \in Bytes
      PROVE  Frames(<<>> \o t) = <<>> \o FramesFrom(<<>> \o t)[0 - 0 + 1]
  <2>1. <<>> \o t = t
        BY ConcatEmptySeq DEF Bytes
  <2>2. 1 \in 1 .. Len(t) + 1 /\ 0 - 0 + 1 = 1
        BY LenProperties DEF Bytes
  <2>3. FramesFrom(t)[1] \in Seq(Bytes)
        BY <2>2, FramesType
  <2>4. <<>> \o FramesFrom(t)[1] = FramesFrom(t)[1]
        BY <2>3, ConcatEmptySeq
  <2> QED BY <2>1, <2>2, <2>4, FramesChooses
<1>4. CutAt(stream, m_msg, messages)
      BY <1>1, <1>2, <1>3 DEF CutAt
<1>5. Ends(stream, m_msg)
      BY <1>1, <1>2, EndsEmpty
<1> QED BY <1>4, <1>5 DEF ParserInv, StateOK, ParserInit

\* A read of bytes, with which the parser has msg of the message in hand.
LEMMA ReadFacts ==
    ASSUME ParserInv, NEW n \in 1 .. m_nextBufferLength, NEW bytes \in [1 .. n -> Byte]
    PROVE  /\ bytes \in Bytes /\ Len(bytes) = n /\ n \in Nat \ {0}
           /\ Ends(stream \o bytes, m_msg \o bytes)
           /\ CutAt(stream \o bytes, m_msg \o bytes, messages)
           /\ Len(m_msg) \in Nat /\ Len(m_msg \o bytes) = Len(m_msg) + n
           /\ \A j \in 1 .. Len(m_msg) : (m_msg \o bytes)[j] = m_msg[j]
           /\ m_msg \in Bytes /\ stream \o bytes \in Bytes
<1>1. Ends(stream, m_msg) /\ CutAt(stream, m_msg, messages)
      BY DEF ParserInv
<1>2. m_msg \in Bytes /\ Len(m_msg) \in Nat
      BY <1>1, LenProperties DEF Ends, Bytes
<1>3. m_nextBufferLength \in Int
  <2>1. Len(m_msg) >= 2 => Word(m_msg, 1) \in Nat
    <3>1. Len(m_msg) >= 2 => 1 \in 1 .. Len(m_msg) - 1
          BY <1>2
    <3> QED BY <1>2, <3>1, WordType
  <2> QED BY <1>2, <2>1 DEF ParserInv, StateOK
<1>4. n \in Nat \ {0}
      BY <1>3
<1>5. bytes \in Bytes /\ Len(bytes) = n
      BY <1>4 DEF Bytes
<1>6. /\ Ends(stream \o bytes, m_msg \o bytes)
      /\ Len(m_msg \o bytes) = Len(m_msg) + Len(bytes)
      /\ \A j \in 1 .. Len(m_msg) : (m_msg \o bytes)[j] = m_msg[j]
      BY <1>1, <1>5, EndsExtend
<1>7. CutAt(stream \o bytes, m_msg \o bytes, messages)
      BY <1>1, <1>5, CutExtend
<1> QED BY <1>2, <1>4, <1>5, <1>6, <1>7 DEF Ends

LEMMA ParserStep == ParserInv /\ ParserNext => ParserInv'
<1> SUFFICES ASSUME ParserInv,
                    NEW n \in 1 .. m_nextBufferLength, NEW bytes \in [1 .. n -> Byte],
                    stream' = stream \o bytes, AdvanceBytes(bytes)
             PROVE  ParserInv'
    BY DEF ParserNext, ReadBytes, Byte, Byte
<1> DEFINE msg == m_msg \o bytes
           w == Word(msg, 1)
<1>1. /\ Len(bytes) = n /\ n \in Nat \ {0}
      /\ Ends(stream', msg) /\ CutAt(stream', msg, messages)
      /\ Len(m_msg) \in Nat /\ Len(msg) = Len(m_msg) + n
      /\ stream' \in Bytes /\ m_msg \in Bytes
      BY ReadFacts
<1>2. Ends(stream', <<>>)
      BY <1>1, EndsEmpty
<1>3. Len(msg) >= 2 => w \in Nat
  <2>1. msg \in Bytes
        BY <1>1 DEF Ends
  <2>2. Len(msg) >= 2 => 1 \in 1 .. Len(msg) - 1
        BY <1>1
  <2> QED BY <2>1, <2>2, WordType
<1>4. ASSUME m_msg' = msg, messages' = messages
      PROVE  Ends(stream', m_msg') /\ CutAt(stream', m_msg', messages')
      BY <1>1, <1>4
<1>5. CASE FirstLengthByte(bytes)
  <2>1. /\ m_readState = "WaitingForLength" /\ n = 1
        /\ m_readState' = "WaitingForLengthPt2" /\ m_nextBufferLength' = 1
        /\ m_msg' = msg /\ messages' = messages
        BY <1>1, <1>5 DEF FirstLengthByte
  <2>2. Len(m_msg) = 0
        BY <2>1, EmptySeq DEF ParserInv, StateOK
  <2>3. Len(m_msg') = 1
        BY <1>1, <2>1, <2>2
  <2> HIDE DEF msg
  <2> QED BY <1>4, <2>1, <2>3 DEF ParserInv, StateOK
<1>6. CASE WholeLength(bytes)
  <2>1. Len(msg) = 2 /\ messages' = messages
    <3>1. /\ messages' = messages
          /\ \/ m_readState = "WaitingForLength" /\ n = 2
             \/ m_readState = "WaitingForLengthPt2"
          BY <1>1, <1>6 DEF WholeLength
    <3>2. CASE m_readState = "WaitingForLength" /\ n = 2
      <4>1. Len(m_msg) = 0
            BY <3>2, EmptySeq DEF ParserInv, StateOK
      <4> QED BY <1>1, <3>1, <3>2, <4>1
    <3>3. CASE m_readState = "WaitingForLengthPt2"
      <4>1. Len(m_msg) = 1 /\ m_nextBufferLength = 1
            BY <3>3 DEF ParserInv, StateOK
      <4>2. n = 1
            BY <4>1
      <4> QED BY <1>1, <3>1, <4>1, <4>2
    <3> QED BY <3>1, <3>2, <3>3
  <2>2. ValidLength(MsgLength(msg)) <=> Valid(w)
        BY DEF ValidLength, MsgLength, Valid, Word
  <2>3. CASE Valid(w)
    <3>1. /\ m_readState' = "WaitingForMessage" /\ m_msg' = msg
          /\ m_msgLength' = w /\ m_nextBufferLength' = w - Len(msg)
      <4> HIDE DEF w
      <4>1. /\ m_readState' = "WaitingForMessage" /\ m_msg' = msg
            /\ m_msgLength' = MsgLength(msg)
            /\ m_nextBufferLength' = MsgLength(msg) - Len(msg)
            BY <1>6, <2>2, <2>3 DEF WholeLength, Rest
      <4>2. MsgLength(msg) = w
            BY DEF MsgLength, Word, w
      <4> QED BY <4>1, <4>2
    <3>2. w \in Nat /\ Len(msg) >= 2
          BY <1>3, <2>1
    <3> HIDE DEF w
    <3>3. Len(msg) < w
          BY <2>1, <2>3, <3>2 DEF Valid
    <3> HIDE DEF msg
    <3> QED BY <1>4, <2>1, <2>3, <3>1, <3>2, <3>3 DEF ParserInv, StateOK, w
  <2>4. CASE ~Valid(w)
    <3>1. /\ m_readState' = "WaitingForLength" /\ m_msg' = <<>>
          /\ m_nextBufferLength' = 2
          BY <1>6, <2>2, <2>4 DEF WholeLength, Reset
    <3>2. CutAt(stream', <<>>, messages)
          BY <1>1, <2>1, <2>4, CutSkip
    <3> QED BY <1>2, <2>1, <3>1, <3>2 DEF ParserInv, StateOK
  <2> QED BY <2>3, <2>4
<1>7. CASE MessageBytes(bytes)
  <2>1. /\ Len(m_msg) >= 2 /\ Valid(Word(m_msg, 1))
        /\ m_msgLength = Word(m_msg, 1) /\ Len(m_msg) < m_msgLength
        /\ m_nextBufferLength = m_msgLength - Len(m_msg)
        /\ m_readState = "WaitingForMessage"
        BY <1>7 DEF MessageBytes, ParserInv, StateOK
  <2>2. w = Word(m_msg, 1)
    <3>1. 1 \in 1 .. Len(m_msg) /\ 2 \in 1 .. Len(m_msg)
          BY <1>1, <2>1
    <3>2. \A j \in 1 .. Len(m_msg) : msg[j] = m_msg[j]
          BY ReadFacts
    <3>3. msg[1] = m_msg[1] /\ msg[2] = m_msg[2]
          BY <3>1, <3>2
    <3> HIDE DEF msg
    <3> QED BY <3>3 DEF Word
  <2> HIDE DEF w
  <2>3. Len(msg) >= 2 /\ Valid(w) /\ w \in Nat /\ Len(msg) <= w
    <3>1. Len(msg) >= 2
          BY <1>1, <2>1
    <3>2. w \in Nat /\ Valid(w)
          BY <1>3, <2>1, <2>2, <3>1
    <3>3. n <= w - Len(m_msg)
          BY <1>1, <2>1, <2>2, <3>2
    <3> QED BY <1>1, <3>1, <3>2, <3>3
  <2>4. CASE Len(msg) = m_msgLength
    <3>1. /\ m_readState' = "WaitingForLength" /\ m_msg' = <<>>
          /\ m_nextBufferLength' = 2 /\ messages' = Append(messages, msg)
          BY <1>7, <2>4 DEF MessageBytes, Reset
    <3>2. Len(msg) = w
          BY <2>1, <2>2, <2>4
    <3> USE DEF w
    <3>3. CutAt(stream', <<>>, Append(messages, msg))
          BY <1>1, <2>3, <3>2, CutTake
    <3> QED BY <1>2, <3>1, <3>3 DEF ParserInv, StateOK
  <2>5. CASE Len(msg) # m_msgLength
    <3>1. /\ m_readState' = "WaitingForMessage" /\ m_msg' = msg
          /\ m_msgLength' = m_msgLength
          /\ m_nextBufferLength' = m_msgLength - Len(msg)
          /\ messages' = messages
          BY <1>7, <2>1, <2>5 DEF MessageBytes, Rest
    <3>2. m_msgLength' = w /\ Len(msg) < w
      <4>1. Len(msg) \in Nat
            BY <1>1
      <4> HIDE DEF msg
      <4> QED BY <2>1, <2>2, <2>3, <2>5, <3>1, <4>1
    <3>3. Ends(stream', m_msg') /\ CutAt(stream', m_msg', messages')
          BY <1>4, <3>1
    <3>4. StateOK'
      <4> HIDE DEF msg
      <4>1. w = Word(m_msg', 1)
            BY <3>1 DEF w
      <4> QED BY <2>3, <3>1, <3>2, <4>1 DEF StateOK
    <3> QED BY <3>3, <3>4 DEF ParserInv
  <2> QED BY <2>4, <2>5
<1> QED BY <1>5, <1>6, <1>7 DEF AdvanceBytes

LEMMA ParserFinds == ParserInv => ChunkingDoesNotMatter
<1> SUFFICES ASSUME ParserInv PROVE messages = Frames(stream)
    BY DEF ChunkingDoesNotMatter
<1>1. Len(m_msg) < 2 \/ (Valid(Word(m_msg, 1)) /\ Len(m_msg) < Word(m_msg, 1))
  <2>1. CASE m_msg = <<>>
        BY <2>1, EmptySeq
  <2>2. CASE Len(m_msg) = 1
        BY <2>2
  <2> QED BY <2>1, <2>2 DEF ParserInv, StateOK
<1> QED BY <1>1, CutEnd DEF ParserInv

\* What is handed to the handlers depends on the bytes alone and not on how the
\* reads, and the writes that cancel them, cut the stream (AVRController.cpp:433),
\* for every length, every MAX_LENGTH and any number of bytes.
THEOREM ChunkingHolds == ParserSpec => []ChunkingDoesNotMatter
<1>1. ParserInv /\ [ParserNext]_parserVars => ParserInv'
  <2> SUFFICES ASSUME ParserInv, UNCHANGED parserVars PROVE ParserInv'
      BY ParserStep
  <2>1. UNCHANGED <<m_readState, m_msg, m_msgLength, m_nextBufferLength, stream, messages>>
        BY DEF parserVars, parser
  <2> QED BY <2>1 DEF ParserInv, StateOK
<1> QED BY <1>1, InitParser, ParserFinds, PTL DEF ParserSpec
=============================================================================

---------------------------- MODULE SerialFraming ----------------------------
(***************************************************************************)
(* How the Arduino program cuts the bytes of the serial port into the      *)
(* messages MecanumMaster handles: the first half of SerialCallback().     *)
(*                                                                         *)
(* A message begins with its length, itself included, low byte first.      *)
(* readBytes() waits for each byte for at most the timeout of 250 ms and   *)
(* then returns what it has.  Bytes may get lost on the way, and the host  *)
(* may pause in the middle of a message for longer than the timeout.       *)
(***************************************************************************)
EXTENDS Naturals, Sequences

CONSTANTS
    Base,           \* the number of byte values: 256
    BUFFERLENGTH,   \* 512
    HostMessages,   \* the messages the host sends
    MaxSends,       \* bound: how many it sends
    MaxLost         \* bound: how many bytes get lost

ASSUME FramingAssumption ==
    /\ Base \in Nat \ {0}
    /\ BUFFERLENGTH \in Nat /\ BUFFERLENGTH > 2
    /\ MaxSends \in Nat /\ MaxLost \in Nat

Byte == 0 .. Base - 1

\* The length word.
MsgSize(low, high) == low + Base * high

\* What the protocol allows: the length is right, there is at least a byte
\* behind it, and it fits in the buffer.
ASSUME MessageAssumption ==
    \A m \in HostMessages :
        /\ m \in Seq(Byte)
        /\ 2 < Len(m) /\ Len(m) <= BUFFERLENGTH
        /\ MsgSize(m[1], m[2]) = Len(m)

VARIABLES
    buffer_bytes,  \* what it held before stays where nothing is read into it
    phase,         \* "idle", or in the second readBytes(): "body"
    msgSize,       \* the length word of the message being read
    rx,            \* bytes that have arrived and were not read
    flight,        \* bytes the host has sent that have not arrived
    sends, lost,   \* how many messages were sent and bytes were lost
    expect,        \* not in the code: sent since the line was last quiet, not yet handled
    trouble        \* not in the code: since then, a byte was lost or came too late

link == <<rx, flight, sends, lost>>
vars == <<buffer_bytes, phase, msgSize, link, expect, trouble>>

Index == 0 .. BUFFERLENGTH - 1

\* The buffer once bytes were read into it from position k on.
Filled(k, bytes) ==
    [j \in Index |-> IF j \in k .. k + Len(bytes) - 1 THEN bytes[j - k + 1]
                     ELSE buffer_bytes[j]]

\* How much to read behind the length word.  What does not fit is dropped.
\* (A slip: the length does not count itself.)
Remaining_Inclusive(size) == IF size > BUFFERLENGTH - 2 THEN BUFFERLENGTH - 2 ELSE size
Remaining(size) ==
    IF size < 2 THEN 0
    ELSE IF size - 2 > BUFFERLENGTH - 2 THEN BUFFERLENGTH - 2
    ELSE size - 2
-----------------------------------------------------------------------------
\* The length word is in buffer_bytes: read on, unless nothing follows.
Header(n) ==
    /\ phase = "idle"
    /\ buffer_bytes' = Filled(0, SubSeq(rx, 1, n))
    /\ rx' = SubSeq(rx, n + 1, Len(rx))
    /\ msgSize' = MsgSize(buffer_bytes'[0], buffer_bytes'[1])
    /\ phase' = IF Remaining(msgSize') > 0 THEN "body" ELSE "idle"
    /\ UNCHANGED <<flight, sends, lost, expect>>

\* Serial.available(), and both bytes come.
ReadHeader ==
    /\ Len(rx) >= 2
    /\ Header(2)
    /\ UNCHANGED trouble

\* Only one comes: the high byte is that of the last message.  (A slip: the
\* byte is left for later.)
HeaderTimeout_Ignored ==
    /\ Len(rx) = 1
    /\ UNCHANGED vars
HeaderTimeout ==
    /\ Len(rx) = 1
    /\ Header(1)
    /\ trouble' = (trouble \/ flight # <<>>)

\* The whole message is there: it is handed to MecanumMaster::Message() or the
\* FSMs, as msgSize bytes of the buffer.  (A slip: not before a byte more.)
ReadBody_Strict ==
    /\ phase = "body"
    /\ Len(rx) > Remaining(msgSize)
    /\ buffer_bytes' = Filled(2, SubSeq(rx, 1, Remaining(msgSize)))
    /\ rx' = SubSeq(rx, Remaining(msgSize) + 1, Len(rx))
    /\ phase' = "idle"
    /\ expect' = IF expect = <<>> THEN <<>> ELSE Tail(expect)
    /\ UNCHANGED <<msgSize, flight, sends, lost, trouble>>
ReadBody ==
    /\ phase = "body"
    /\ Len(rx) >= Remaining(msgSize)
    /\ buffer_bytes' = Filled(2, SubSeq(rx, 1, Remaining(msgSize)))
    /\ rx' = SubSeq(rx, Remaining(msgSize) + 1, Len(rx))
    /\ phase' = "idle"
    /\ expect' = IF expect = <<>> THEN <<>> ELSE Tail(expect)
    /\ UNCHANGED <<msgSize, flight, sends, lost, trouble>>

\* The rest does not come in time, and what came is dropped.
BodyTimeout ==
    /\ phase = "body"
    /\ Len(rx) < Remaining(msgSize)
    /\ buffer_bytes' = Filled(2, rx)
    /\ rx' = <<>>
    /\ phase' = "idle"
    /\ trouble' = (trouble \/ flight # <<>>)
    /\ UNCHANGED <<msgSize, flight, sends, lost, expect>>

SerialCallback == ReadHeader \/ HeaderTimeout \/ ReadBody \/ BodyTimeout
-----------------------------------------------------------------------------
(* The host and the line *)

\* Nothing is on its way, and no read is waiting.
Quiet == phase = "idle" /\ rx = <<>> /\ flight = <<>>

HostSend ==
    /\ sends < MaxSends
    /\ sends' = sends + 1
    /\ \E m \in HostMessages :
         /\ flight' = flight \o m
         /\ expect' = Append(IF Quiet THEN <<>> ELSE expect, m)
    /\ trouble' = (trouble /\ ~Quiet)
    /\ UNCHANGED <<buffer_bytes, phase, msgSize, rx, lost>>

Arrive ==
    /\ flight # <<>>
    /\ rx' = Append(rx, Head(flight))
    /\ flight' = Tail(flight)
    /\ UNCHANGED <<buffer_bytes, phase, msgSize, sends, lost, expect, trouble>>

Lose ==
    /\ flight # <<>>
    /\ lost < MaxLost
    /\ lost' = lost + 1
    /\ flight' = Tail(flight)
    /\ trouble' = TRUE
    /\ UNCHANGED <<buffer_bytes, phase, msgSize, rx, sends, expect>>

Init ==
    /\ buffer_bytes = [j \in Index |-> 0]
    /\ phase = "idle"
    /\ msgSize = 0
    /\ rx = <<>> /\ flight = <<>>
    /\ sends = 0 /\ lost = 0
    /\ expect = <<>> /\ trouble = FALSE

Next == SerialCallback \/ HostSend \/ Arrive \/ Lose

Spec == Init /\ [][Next]_vars

\* The loop keeps running, readBytes() returns after its timeout at the latest,
\* and what is sent arrives or gets lost.
FairSpec == Spec /\ WF_vars(SerialCallback) /\ WF_vars(Arrive)
-----------------------------------------------------------------------------
(* Properties *)

TypeOK ==
    /\ buffer_bytes \in [Index -> Byte]
    /\ phase \in {"idle", "body"}
    /\ msgSize \in 0 .. Base * Base - 1
    /\ rx \in Seq(Byte) /\ flight \in Seq(Byte)
    /\ sends \in 0 .. MaxSends /\ lost \in 0 .. MaxLost
    /\ expect \in Seq(HostMessages)
    /\ trouble \in BOOLEAN

\* What is handled is what the host sent, in order, from the first message sent
\* on a quiet line on until a byte is lost or late.
HandlesWhatWasSent ==
    [][ReadBody /\ ~trouble =>
        /\ expect # <<>>
        /\ msgSize = Len(Head(expect))
        /\ \A j \in 1 .. msgSize : buffer_bytes'[j - 1] = Head(expect)[j]]_vars

\* Every message sent that way is handled ...
MessagesArrive == expect # <<>> /\ ~trouble ~> expect = <<>> \/ trouble

\* ... and however the line was upset, a host that pauses finds it quiet, so
\* that the next message is understood.
LineRecovers == trouble ~> Quiet \/ ~trouble
=============================================================================

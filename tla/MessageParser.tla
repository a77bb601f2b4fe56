---------------------------- MODULE MessageParser ----------------------------
(***************************************************************************)
(* AVRController::Message, the state machine that puts messages together   *)
(* from whatever the serial port delivers, driven by ReadCallback().       *)
(*                                                                         *)
(* The first two bytes of a message are its length, little endian, itself  *)
(* included.  Each asynchronous read may return any number of the bytes    *)
(* asked for, or none when a write cancelled it.  Reading does not lose    *)
(* bytes.                                                                  *)
(***************************************************************************)
EXTENDS Naturals, Sequences

CONSTANTS
    Base,         \* the number of byte values: 256
    MAX_LENGTH,   \* 512
    MaxStream     \* bound: bytes the port delivers

ASSUME ParserAssumption == Base \in Nat \ {0} /\ MAX_LENGTH \in Nat /\ MaxStream \in Nat

Byte == 0 .. Base - 1

VARIABLES
    m_readState, m_msg, m_msgLength, m_nextBufferLength,
    stream,       \* not in the code: every byte read so far
    messages      \* not in the code: every message handed to the handlers

parser == <<m_readState, m_msg, m_msgLength, m_nextBufferLength>>
parserVars == <<parser, stream, messages>>

\* GetMsgLength()
MsgLength(s) == s[1] + Base * s[2]

\* Reset().  (A slip: the message composed so far stays.)
Reset_KeepsMsg ==
    /\ m_readState' = "WaitingForLength"
    /\ m_msg' = m_msg
    /\ m_msgLength' = 0
    /\ m_nextBufferLength' = 2
Reset ==
    /\ m_readState' = "WaitingForLength"
    /\ m_msg' = <<>>
    /\ m_msgLength' = 0
    /\ m_nextBufferLength' = 2

\* Lengths a message may have.
ValidLength(n) == 3 <= n /\ n <= MAX_LENGTH

\* WaitingForLength, and only one byte of the length came.
FirstLengthByte(bytes) ==
    /\ m_readState = "WaitingForLength" /\ Len(bytes) = 1
    /\ m_readState' = "WaitingForLengthPt2"
    /\ m_msg' = m_msg \o bytes
    /\ m_nextBufferLength' = 1
    /\ UNCHANGED <<m_msgLength, messages>>

\* How many bytes to ask for: those that are not here yet.
Rest(length, have) == length - have

\* The length is complete: go on to the message, or start over.
WholeLength(bytes) ==
    /\ \/ m_readState = "WaitingForLength" /\ Len(bytes) = 2
       \/ m_readState = "WaitingForLengthPt2"
    /\ IF ValidLength(MsgLength(m_msg \o bytes))
       THEN /\ m_readState' = "WaitingForMessage"
            /\ m_msg' = m_msg \o bytes
            /\ m_msgLength' = MsgLength(m_msg')
            /\ m_nextBufferLength' = Rest(m_msgLength', Len(m_msg'))
       ELSE Reset
    /\ UNCHANGED messages

\* A piece of the message came.  When that finishes it, ReadCallback() hands it
\* to the response handlers and resets the parser.
MessageBytes(bytes) ==
    /\ m_readState = "WaitingForMessage"
    /\ LET msg == m_msg \o bytes
       IN  IF Len(msg) = m_msgLength
           THEN Reset /\ messages' = Append(messages, msg)
           ELSE /\ m_msg' = msg
                /\ m_nextBufferLength' = Rest(m_msgLength, Len(msg))
                /\ UNCHANGED <<m_readState, m_msgLength, messages>>

AdvanceBytes(bytes) == FirstLengthByte(bytes) \/ WholeLength(bytes) \/ MessageBytes(bytes)

\* A read completes with between 1 and m_nextBufferLength bytes.
ReadBytes ==
    \E n \in 1 .. m_nextBufferLength :
        /\ Len(stream) + n <= MaxStream
        /\ \E bytes \in [1 .. n -> Byte] :
             /\ stream' = stream \o bytes
             /\ AdvanceBytes(bytes)

ParserInit ==
    /\ m_readState = "WaitingForLength"
    /\ m_msg = <<>>
    /\ m_msgLength = 0
    /\ m_nextBufferLength = 2
    /\ stream = <<>>
    /\ messages = <<>>

ParserNext == ReadBytes

ParserSpec == ParserInit /\ [][ParserNext]_parserVars
-----------------------------------------------------------------------------
(* Properties *)

\* The messages in s, read from the start: a valid length word and as many
\* bytes as it says, or an invalid one, which is skipped.
Frames(s) ==
    LET From[k \in 1 .. Len(s) + 1] ==
          IF k >= Len(s) THEN <<>>
          ELSE LET n == s[k] + Base * s[k + 1]
               IN  IF ~ (3 <= n /\ n <= MAX_LENGTH) THEN From[k + 2]
                   ELSE IF k + n > Len(s) + 1 THEN <<>>
                   ELSE <<SubSeq(s, k, k + n - 1)>> \o From[k + n]
    IN  From[1]

\* What is handed to the handlers depends on the bytes alone and not on how the
\* reads, and the writes that cancel them, cut the stream; each is a message of
\* the length it declares, which the parser has checked (AVRController.cpp:474).
ChunkingDoesNotMatter == messages = Frames(stream)
=============================================================================

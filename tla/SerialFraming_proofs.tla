------------------------ MODULE SerialFraming_proofs -------------------------
(***************************************************************************)
(* As long as nothing is lost or late, the bytes that were read of the     *)
(* message in hand, those that have arrived and those on their way are the *)
(* messages expected, one after the other (InStep).                        *)
(***************************************************************************)
EXTENDS SerialFraming, Integers, SequenceTheorems, TLAPS

Bytes == Seq(Byte)

LEMMA ByteIsNat == \A b \in Byte : b \in Nat /\ b <= Base - 1
BY FramingAssumption DEF Byte

LEMMA MessageFacts ==
    ASSUME NEW m \in HostMessages
    PROVE  /\ m \in Bytes
           /\ Len(m) \in Nat /\ 2 < Len(m) /\ Len(m) <= BUFFERLENGTH
           /\ MsgSize(m[1], m[2]) = Len(m)
BY MessageAssumption, LenProperties DEF Bytes

\* A word of two bytes.
LEMMA MsgSizeType ==
    ASSUME NEW low \in Byte, NEW high \in Byte
    PROVE  MsgSize(low, high) \in 0 .. Base * Base - 1
<1>1. /\ Base \in Nat \ {0}
      /\ low \in Nat /\ low <= Base - 1
      /\ high \in Nat /\ high <= Base - 1
      BY FramingAssumption, ByteIsNat
<1>2. Base * high \in Nat
      BY <1>1
<1> DEFINE d == Base - 1 - high
<1>3. d \in Nat /\ Base - 1 = high + d
      BY <1>1
<1> HIDE DEF d
<1>5. Base * (high + d) = Base * high + Base * d
      BY <1>1, <1>3
<1>6. Base * d \in Nat
      BY <1>1, <1>3
<1>7. Base * (Base - 1) = Base * Base - Base
      BY <1>1
<1>8. Base * high <= Base * Base - Base
      BY <1>2, <1>3, <1>5, <1>6, <1>7
<1>9. Base * Base \in Nat
      BY <1>1
<1> HIDE DEF MsgSize
<1>10. low + Base * high <= Base * Base - 1 /\ low + Base * high \in Nat
  <2> DEFINE P == Base * high
  <2> DEFINE Q == Base * Base
  <2>1. P \in Nat /\ Q \in Nat /\ P <= Q - Base
        BY <1>2, <1>8, <1>9
  <2> HIDE DEF P, Q
  <2>2. low + P <= Q - 1 /\ low + P \in Nat
        BY <1>1, <2>1
  <2> QED BY <2>2 DEF P, Q
<1> QED BY <1>9, <1>10 DEF MsgSize

LEMMA RemainingType ==
    ASSUME NEW size \in Nat
    PROVE  Remaining(size) \in Nat /\ 2 + Remaining(size) <= BUFFERLENGTH
BY FramingAssumption DEF Remaining

LEMMA TailBytes ==
    ASSUME NEW s \in Bytes, NEW n \in 0 .. Len(s)
    PROVE  /\ SubSeq(s, 1, n) \in Bytes /\ Len(SubSeq(s, 1, n)) = n
           /\ \A i \in 1 .. n : SubSeq(s, 1, n)[i] = s[i]
           /\ SubSeq(s, n + 1, Len(s)) \in Bytes
           /\ Len(SubSeq(s, n + 1, Len(s))) = Len(s) - n
           /\ \A i \in 1 .. Len(s) - n : SubSeq(s, n + 1, Len(s))[i] = s[n + i]
<1>1. Len(s) \in Nat /\ n \in Nat /\ n <= Len(s)
      BY LenProperties DEF Bytes
<1>2. \A i \in 1 .. Len(s) : s[i] \in Byte
      BY ElementOfSeq DEF Bytes
<1>3. \A i \in 1 .. n : s[i] \in Byte
      BY <1>1, <1>2
<1>4. /\ SubSeq(s, 1, n) \in Bytes
      /\ Len(SubSeq(s, 1, n)) = IF 1 <= n THEN n - 1 + 1 ELSE 0
      /\ \A i \in 1 .. n - 1 + 1 : SubSeq(s, 1, n)[i] = s[1 + i - 1]
      BY <1>1, <1>3, SubSeqProperties DEF Bytes
<1>5. \A i \in n + 1 .. Len(s) : s[i] \in Byte
      BY <1>1, <1>2
<1>6. /\ SubSeq(s, n + 1, Len(s)) \in Bytes
      /\ Len(SubSeq(s, n + 1, Len(s)))
            = IF n + 1 <= Len(s) THEN Len(s) - (n + 1) + 1 ELSE 0
      /\ \A i \in 1 .. Len(s) - (n + 1) + 1 :
            SubSeq(s, n + 1, Len(s))[i] = s[n + 1 + i - 1]
  <2>1. n + 1 \in Int /\ Len(s) \in Int
        BY <1>1
  <2> QED BY <2>1, <1>5, SubSeqProperties DEF Bytes
<1>7. \A i \in 1 .. n : i \in 1 .. n - 1 + 1 /\ 1 + i - 1 = i
      BY <1>1
<1>8. \A i \in 1 .. Len(s) - n : i \in 1 .. Len(s) - (n + 1) + 1 /\ n + 1 + i - 1 = n + i
      BY <1>1
<1> QED BY <1>1, <1>4, <1>6, <1>7, <1>8

LEMMA FilledType ==
    ASSUME TypeOK, NEW k \in Nat, NEW bytes \in Bytes
    PROVE  Filled(k, bytes) \in [Index -> Byte]
<1>1. Len(bytes) \in Nat /\ \A i \in 1 .. Len(bytes) : bytes[i] \in Byte
      BY LenProperties, ElementOfSeq DEF Bytes
<1>2. \A j \in Index : buffer_bytes[j] \in Byte
      BY DEF TypeOK
<1>3. ASSUME NEW j \in Index, j \in k .. k + Len(bytes) - 1
      PROVE  bytes[j - k + 1] \in Byte
  <2>1. j - k + 1 \in 1 .. Len(bytes)
        BY <1>1, <1>3
  <2> QED BY <1>1, <2>1
<1> QED BY <1>2, <1>3 DEF Filled

-----------------------------------------------------------------------------
(* Types *)

LEMMA HeaderKeepsTypes ==
    ASSUME TypeOK, NEW n \in 1 .. 2, n <= Len(rx), Header(n), trouble' \in BOOLEAN
    PROVE  TypeOK'
<1>1. rx \in Bytes /\ n \in 0 .. Len(rx)
      BY DEF TypeOK, Bytes
<1>2. SubSeq(rx, 1, n) \in Bytes /\ rx' \in Seq(Byte)
      BY <1>1, TailBytes DEF Header, Bytes
<1>3. buffer_bytes' \in [Index -> Byte]
      BY <1>2, FilledType DEF Header
<1>4. 0 \in Index /\ 1 \in Index
      BY FramingAssumption DEF Index
<1>5. msgSize' \in 0 .. Base * Base - 1
      BY <1>3, <1>4, MsgSizeType DEF Header
<1> QED BY <1>2, <1>3, <1>5 DEF Header, TypeOK

LEMMA BodyKeepsTypes == TypeOK /\ (ReadBody \/ BodyTimeout) => TypeOK'
<1> SUFFICES ASSUME TypeOK, ReadBody \/ BodyTimeout PROVE TypeOK'
    OBVIOUS
<1>1. rx \in Bytes /\ <<>> \in Seq(Byte)
      BY EmptySeq DEF TypeOK, Bytes
<1>2. msgSize \in Nat /\ Remaining(msgSize) \in Nat
      BY RemainingType DEF TypeOK
<1>3. CASE ReadBody
  <2>1. Remaining(msgSize) \in 0 .. Len(rx)
        BY <1>1, <1>2, <1>3, LenProperties DEF ReadBody, Bytes
  <2>2. SubSeq(rx, 1, Remaining(msgSize)) \in Bytes /\ rx' \in Seq(Byte)
        BY <1>1, <1>3, <2>1, TailBytes DEF ReadBody, Bytes
  <2>3. buffer_bytes' \in [Index -> Byte]
        BY <1>3, <2>2, FilledType DEF ReadBody
  <2>4. expect' \in Seq(HostMessages)
        BY <1>3, EmptySeq, HeadTailProperties DEF ReadBody, TypeOK
  <2> QED BY <1>3, <2>2, <2>3, <2>4 DEF ReadBody, TypeOK
<1>4. CASE BodyTimeout
  <2>1. buffer_bytes' \in [Index -> Byte]
        BY <1>1, <1>4, FilledType DEF BodyTimeout
  <2> QED BY <1>1, <1>4, <2>1 DEF BodyTimeout, TypeOK
<1> QED BY <1>3, <1>4

LEMMA LineKeepsTypes == TypeOK /\ (HostSend \/ Arrive \/ Lose) => TypeOK'
<1> SUFFICES ASSUME TypeOK, HostSend \/ Arrive \/ Lose PROVE TypeOK'
    OBVIOUS
<1>1. CASE HostSend
  <2>1. PICK m \in HostMessages :
          /\ flight' = flight \o m
          /\ expect' = Append(IF Quiet THEN <<>> ELSE expect, m)
        BY <1>1 DEF HostSend
  <2>2. flight' \in Seq(Byte)
        BY <2>1, MessageFacts, ConcatProperties DEF TypeOK, Bytes
  <2>3. expect' \in Seq(HostMessages)
        BY <2>1, EmptySeq, AppendProperties DEF TypeOK
  <2>4. sends' \in 0 .. MaxSends
        BY <1>1, FramingAssumption DEF HostSend, TypeOK
  <2>5. trouble' \in BOOLEAN
        BY <1>1 DEF HostSend
  <2> QED BY <1>1, <2>2, <2>3, <2>4, <2>5 DEF HostSend, TypeOK
<1>2. CASE Arrive
  <2>1. Head(flight) \in Byte /\ flight' \in Seq(Byte)
        BY <1>2, HeadTailProperties DEF Arrive, TypeOK
  <2>2. rx' \in Seq(Byte)
        BY <1>2, <2>1, AppendProperties DEF Arrive, TypeOK
  <2> QED BY <1>2, <2>1, <2>2 DEF Arrive, TypeOK
<1>3. CASE Lose
  <2>1. flight' \in Seq(Byte)
        BY <1>3, HeadTailProperties DEF Lose, TypeOK
  <2>2. lost' \in 0 .. MaxLost
        BY <1>3, FramingAssumption DEF Lose, TypeOK
  <2> QED BY <1>3, <2>1, <2>2 DEF Lose, TypeOK
<1> QED BY <1>1, <1>2, <1>3

LEMMA NextKeepsTypes == TypeOK /\ [Next]_vars => TypeOK'
<1> SUFFICES ASSUME TypeOK, [Next]_vars PROVE TypeOK'
    OBVIOUS
<1>1. CASE ReadHeader
      BY <1>1, HeaderKeepsTypes, LenProperties DEF ReadHeader, TypeOK
<1>2. CASE HeaderTimeout
  <2>1. trouble' \in BOOLEAN
        BY <1>2 DEF HeaderTimeout
  <2> QED BY <1>2, <2>1, HeaderKeepsTypes DEF HeaderTimeout
<1>3. CASE ReadBody \/ BodyTimeout
      BY <1>3, BodyKeepsTypes
<1>4. CASE HostSend \/ Arrive \/ Lose
      BY <1>4, LineKeepsTypes
<1>5. CASE UNCHANGED vars
      BY <1>5 DEF vars, link, TypeOK
<1> QED BY <1>1, <1>2, <1>3, <1>4, <1>5 DEF Next, SerialCallback

LEMMA InitTypes == Init => TypeOK
<1> SUFFICES ASSUME Init PROVE TypeOK
    OBVIOUS
<1>1. 0 \in Byte /\ 0 \in 0 .. Base * Base - 1
  <2>1. Base * Base \in Nat \ {0}
        BY FramingAssumption
  <2> QED BY <2>1, FramingAssumption DEF Byte
<1>2. <<>> \in Seq(Byte) /\ <<>> \in Seq(HostMessages)
      BY EmptySeq
<1>3. 0 \in 0 .. MaxSends /\ 0 \in 0 .. MaxLost
      BY FramingAssumption
<1> QED BY <1>1, <1>2, <1>3 DEF Init, TypeOK

\* The buffer holds bytes, the length word is a word, and the line is made of
\* bytes: what the next theorem rests on.
THEOREM TypesHold == Spec => []TypeOK
BY InitTypes, NextKeepsTypes, PTL DEF Spec
-----------------------------------------------------------------------------
(* Staying in step *)

Msgs == Seq(HostMessages)

\* The bytes s are the messages ms, one after the other; cut says where each
\* of them begins and, at its end, where the last one ends.
Cuts(cut, s, ms) ==
    /\ cut \in [1 .. Len(ms) + 1 -> Nat]
    /\ cut[1] = 0 /\ cut[Len(ms) + 1] = Len(s)
    /\ \A k, l \in 1 .. Len(ms) + 1 : k <= l => cut[k] <= cut[l]
    /\ \A k \in 1 .. Len(ms) : cut[k + 1] = cut[k] + Len(ms[k])
    /\ \A k \in 1 .. Len(ms) : \A j \in 1 .. Len(ms[k]) : s[cut[k] + j] = ms[k][j]
Spells(s, ms) == \E cut : Cuts(cut, s, ms)

\* What was read of the message in hand.
ReadOf(ph, buffer) == IF ph = "body" THEN <<buffer[0], buffer[1]>> ELSE <<>>
Read == ReadOf(phase, buffer_bytes)

StreamOf(ph, buffer, here, coming) == ReadOf(ph, buffer) \o (here \o coming)
Stream == StreamOf(phase, buffer_bytes, rx, flight)

InStep ==
    /\ phase = "body" => msgSize = MsgSize(buffer_bytes[0], buffer_bytes[1])
    /\ ~trouble => Spells(Stream, expect)

\* Where the bytes of the three parts are.
Laid(ph, buffer, here, coming, read, stream) ==
    /\ read \in Bytes /\ here \in Bytes /\ coming \in Bytes /\ stream \in Bytes
    /\ Len(read) = (IF ph = "body" THEN 2 ELSE 0)
    /\ Len(here) \in Nat /\ Len(coming) \in Nat
    /\ Len(stream) = Len(read) + Len(here) + Len(coming)
    /\ ph = "body" => stream[1] = buffer[0] /\ stream[2] = buffer[1]
    /\ \A i \in 1 .. Len(here) : stream[Len(read) + i] = here[i]
    /\ \A i \in 1 .. Len(coming) : stream[Len(read) + Len(here) + i] = coming[i]

LEMMA StreamOfLaid ==
    ASSUME NEW ph, NEW buffer \in [Index -> Byte], NEW here \in Bytes, NEW coming \in Bytes,
           NEW read, read = ReadOf(ph, buffer),
           NEW stream, stream = StreamOf(ph, buffer, here, coming)
    PROVE  Laid(ph, buffer, here, coming, read, stream)
<1>1. 0 \in Index /\ 1 \in Index
      BY FramingAssumption DEF Index
<1>2. read \in Bytes /\ Len(read) = (IF ph = "body" THEN 2 ELSE 0)
      BY <1>1, EmptySeq DEF ReadOf, Bytes
<1>3. /\ here \in Bytes /\ coming \in Bytes
      /\ Len(here) \in Nat /\ Len(coming) \in Nat
      BY LenProperties DEF Bytes
<1>4. /\ here \o coming \in Bytes
      /\ Len(here \o coming) = Len(here) + Len(coming)
      /\ \A i \in 1 .. Len(here) + Len(coming) :
            (here \o coming)[i] = IF i <= Len(here) THEN here[i] ELSE coming[i - Len(here)]
      BY <1>3, ConcatProperties DEF Bytes
<1>5. /\ stream \in Bytes
      /\ Len(stream) = Len(read) + Len(here \o coming)
      /\ \A i \in 1 .. Len(read) + Len(here \o coming) :
            stream[i] = IF i <= Len(read) THEN read[i] ELSE (here \o coming)[i - Len(read)]
      BY <1>2, <1>4, ConcatProperties DEF Bytes, StreamOf
<1>6. ASSUME ph = "body" PROVE stream[1] = buffer[0] /\ stream[2] = buffer[1]
  <2>1. Len(read) = 2 /\ read[1] = buffer[0] /\ read[2] = buffer[1]
        BY <1>2, <1>6 DEF ReadOf
  <2>2. 1 \in 1 .. Len(read) + Len(here \o coming) /\ 2 \in 1 .. Len(read) + Len(here \o coming)
        BY <1>3, <1>4, <2>1
  <2> QED BY <1>5, <2>1, <2>2
<1>7. ASSUME NEW i \in 1 .. Len(here) PROVE stream[Len(read) + i] = here[i]
  <2> DEFINE p == Len(read) + i
  <2>1. /\ p \in 1 .. Len(read) + Len(here \o coming)
        /\ ~(p <= Len(read)) /\ p - Len(read) = i
        /\ i \in 1 .. Len(here) + Len(coming) /\ i <= Len(here)
        BY <1>2, <1>3, <1>4
  <2> HIDE DEF p
  <2>2. stream[p] = (here \o coming)[p - Len(read)]
        BY <1>5, <2>1
  <2>3. (here \o coming)[i] = here[i]
        BY <1>4, <2>1
  <2>4. stream[p] = here[i]
        BY <2>1, <2>2, <2>3
  <2> QED BY <2>4 DEF p
<1>8. ASSUME NEW i \in 1 .. Len(coming) PROVE stream[Len(read) + Len(here) + i] = coming[i]
  <2> DEFINE p == Len(read) + Len(here) + i
             q == Len(here) + i
  <2>1. /\ p \in 1 .. Len(read) + Len(here \o coming)
        /\ ~(p <= Len(read)) /\ p - Len(read) = q
        /\ q \in 1 .. Len(here) + Len(coming) /\ ~(q <= Len(here))
        /\ q - Len(here) = i
        BY <1>2, <1>3, <1>4
  <2> HIDE DEF p, q
  <2>2. stream[p] = (here \o coming)[p - Len(read)]
        BY <1>5, <2>1
  <2>3. (here \o coming)[q] = coming[q - Len(here)]
        BY <1>4, <2>1
  <2>4. stream[p] = coming[i]
        BY <2>1, <2>2, <2>3
  <2> QED BY <2>4 DEF p
<1>9. here \o coming \in Bytes /\ stream \in Bytes
      BY <1>4, <1>5
<1>10. Len(stream) = Len(read) + Len(here) + Len(coming)
  <2>1. Len(here \o coming) = Len(here) + Len(coming)
        BY <1>4
  <2>2. Len(stream) = Len(read) + Len(here \o coming)
        BY <1>5
  <2>3. Len(read) \in Nat /\ Len(here) \in Nat /\ Len(coming) \in Nat
        BY <1>2, <1>3
  <2> QED BY <2>1, <2>2, <2>3
<1>11. ph = "body" => stream[1] = buffer[0] /\ stream[2] = buffer[1]
       BY <1>6
<1>12. \A i \in 1 .. Len(here) : stream[Len(read) + i] = here[i]
       BY <1>7
<1>13. \A i \in 1 .. Len(coming) : stream[Len(read) + Len(here) + i] = coming[i]
       BY <1>8
<1> QED BY <1>2, <1>3, <1>9, <1>10, <1>11, <1>12, <1>13 DEF Laid

LEMMA StreamFacts == TypeOK => Laid(phase, buffer_bytes, rx, flight, Read, Stream)
<1> SUFFICES ASSUME TypeOK PROVE Laid(phase, buffer_bytes, rx, flight, Read, Stream)
    OBVIOUS
<1>1. buffer_bytes \in [Index -> Byte] /\ rx \in Bytes /\ flight \in Bytes
      BY DEF TypeOK, Bytes
<1>2. Read = ReadOf(phase, buffer_bytes) /\ Stream = StreamOf(phase, buffer_bytes, rx, flight)
      BY DEF Read, Stream
<1> QED BY <1>1, <1>2, StreamOfLaid

LEMMA StreamPrimed == TypeOK' => Laid(phase', buffer_bytes', rx', flight', Read', Stream')
<1> SUFFICES ASSUME TypeOK' PROVE Laid(phase', buffer_bytes', rx', flight', Read', Stream')
    OBVIOUS
<1>1. buffer_bytes' \in [Index -> Byte] /\ rx' \in Bytes /\ flight' \in Bytes
      BY DEF TypeOK, Bytes
<1>2. /\ Read' = ReadOf(phase', buffer_bytes')
      /\ Stream' = StreamOf(phase', buffer_bytes', rx', flight')
      BY DEF Read, Stream
<1> QED BY <1>1, <1>2, StreamOfLaid

\* The first message begins the stream.
LEMMA SpellsFirst ==
    ASSUME NEW s \in Bytes, NEW ms \in Msgs, Spells(s, ms), s # <<>>
    PROVE  /\ ms # <<>> /\ Head(ms) \in HostMessages /\ Head(ms) = ms[1]
           /\ Len(ms[1]) <= Len(s)
           /\ \A j \in 1 .. Len(ms[1]) : s[j] = ms[1][j]
<1>1. PICK cut : Cuts(cut, s, ms)
      BY DEF Spells
<1>2. Len(ms) \in Nat /\ Len(s) \in Nat \ {0}
      BY LenProperties, EmptySeq DEF Msgs, Bytes
<1>3. Len(ms) # 0
      BY <1>1, <1>2 DEF Cuts
<1>4. ms # <<>>
      BY <1>3
<1>5. Head(ms) \in HostMessages /\ Head(ms) = ms[1]
      BY <1>4, HeadTailProperties DEF Msgs
<1>6. Len(ms[1]) \in Nat
      BY <1>5, MessageFacts
<1>7. 1 \in 1 .. Len(ms) /\ 2 \in 1 .. Len(ms) + 1 /\ Len(ms) + 1 \in 1 .. Len(ms) + 1
      BY <1>2, <1>3
<1>8. cut[1] = 0 /\ cut[2] = Len(ms[1]) /\ cut[2] <= cut[Len(ms) + 1] /\ cut[Len(ms) + 1] = Len(s)
  <2>1. cut[1] = 0 /\ cut[1 + 1] = cut[1] + Len(ms[1])
        BY <1>1, <1>7 DEF Cuts
  <2>2. 2 <= Len(ms) + 1
        BY <1>7
  <2> QED BY <1>1, <1>6, <1>7, <2>1, <2>2 DEF Cuts
<1>9. \A j \in 1 .. Len(ms[1]) : s[j] = ms[1][j]
  <2> SUFFICES ASSUME NEW j \in 1 .. Len(ms[1]) PROVE s[j] = ms[1][j]
      OBVIOUS
  <2>1. s[cut[1] + j] = ms[1][j]
        BY <1>1, <1>7 DEF Cuts
  <2> QED BY <1>8, <2>1
<1> QED BY <1>4, <1>5, <1>8, <1>9

\* Taking the first message away.
LEMMA SpellsRest ==
    ASSUME NEW s \in Bytes, NEW ms \in Msgs, Spells(s, ms), s # <<>>,
           NEW t \in Bytes, Len(t) = Len(s) - Len(ms[1]),
           \A i \in 1 .. Len(t) : t[i] = s[Len(ms[1]) + i]
    PROVE  Spells(t, Tail(ms))
<1>1. PICK cut : Cuts(cut, s, ms)
      BY DEF Spells
<1> DEFINE n == Len(ms[1])
           c == [k \in 1 .. Len(Tail(ms)) + 1 |-> cut[k + 1] - n]
<1>2. /\ ms # <<>> /\ Tail(ms) \in Msgs
      /\ Len(ms) \in Nat /\ Len(Tail(ms)) = Len(ms) - 1
      /\ \A k \in 1 .. Len(Tail(ms)) : Tail(ms)[k] = ms[k + 1]
      BY SpellsFirst, HeadTailProperties, LenProperties DEF Msgs
<1>3. \A k \in 1 .. Len(ms) : Len(ms[k]) \in Nat
      BY ElementOfSeq, MessageFacts DEF Msgs
<1>4. /\ Len(ms) >= 1 /\ n \in Nat /\ Len(s) \in Nat /\ Len(t) \in Nat
      /\ Len(t) = Len(s) - n
  <2>1. n \in Nat
        BY SpellsFirst, MessageFacts
  <2>2. Len(Tail(ms)) \in Nat
        BY <1>2, LenProperties DEF Msgs
  <2> QED BY <1>2, <2>1, <2>2, LenProperties DEF Bytes
<1>5. \A k \in 1 .. Len(ms) + 1 : cut[k] \in Nat
      BY <1>1 DEF Cuts
<1>6. cut[1] = 0 /\ cut[2] = n
  <2>1. cut[1] = 0 /\ cut[1 + 1] = cut[1] + n
        BY <1>1, <1>2, <1>4 DEF Cuts
  <2> QED BY <1>4, <2>1
<1>7. \A k \in 2 .. Len(ms) + 1 : n <= cut[k]
  <2>1. ASSUME NEW k \in 2 .. Len(ms) + 1 PROVE cut[2] <= cut[k]
    <3>1. 2 \in 1 .. Len(ms) + 1 /\ k \in 1 .. Len(ms) + 1 /\ 2 <= k
          BY <1>2, <1>4
    <3> QED BY <1>1, <3>1 DEF Cuts
  <2> QED BY <1>6, <2>1
<1> HIDE DEF n
<1>8. \A k \in 1 .. Len(Tail(ms)) + 1 :
         /\ k + 1 \in 2 .. Len(ms) + 1 /\ k + 1 \in 1 .. Len(ms) + 1
         /\ c[k] = cut[k + 1] - n /\ c[k] \in Nat
      BY <1>2, <1>4, <1>5, <1>7
<1>9. c \in [1 .. Len(Tail(ms)) + 1 -> Nat]
      BY <1>8
<1> HIDE DEF c
<1>10. c[1] = 0 /\ c[Len(Tail(ms)) + 1] = Len(t)
  <2>1. 1 \in 1 .. Len(Tail(ms)) + 1 /\ Len(Tail(ms)) + 1 \in 1 .. Len(Tail(ms)) + 1
        BY <1>2, <1>4
  <2>2. c[1] = cut[1 + 1] - n /\ c[Len(Tail(ms)) + 1] = cut[Len(Tail(ms)) + 1 + 1] - n
        BY <1>8, <2>1
  <2>3. Len(Tail(ms)) + 1 + 1 = Len(ms) + 1 /\ 1 + 1 = 2
        BY <1>2, <1>4
  <2>4. cut[Len(ms) + 1] = Len(s)
        BY <1>1 DEF Cuts
  <2> QED BY <1>4, <1>6, <2>2, <2>3, <2>4
<1>11. ASSUME NEW k \in 1 .. Len(Tail(ms)) + 1, NEW l \in 1 .. Len(Tail(ms)) + 1, k <= l
       PROVE  c[k] <= c[l]
  <2>1. /\ k + 1 \in 1 .. Len(ms) + 1 /\ l + 1 \in 1 .. Len(ms) + 1 /\ k + 1 <= l + 1
        /\ c[k] = cut[k + 1] - n /\ c[l] = cut[l + 1] - n
        BY <1>2, <1>4, <1>8, <1>11
  <2>2. cut[k + 1] <= cut[l + 1]
        BY <1>1, <2>1 DEF Cuts
  <2>3. cut[k + 1] \in Nat /\ cut[l + 1] \in Nat
        BY <1>5, <2>1
  <2> QED BY <1>4, <2>1, <2>2, <2>3
<1>12. ASSUME NEW k \in 1 .. Len(Tail(ms))
       PROVE  /\ c[k + 1] = c[k] + Len(Tail(ms)[k])
              /\ \A j \in 1 .. Len(Tail(ms)[k]) : t[c[k] + j] = Tail(ms)[k][j]
  <2>1. /\ k \in 1 .. Len(Tail(ms)) + 1 /\ k + 1 \in 1 .. Len(Tail(ms)) + 1
        /\ k + 1 \in 1 .. Len(ms) /\ k + 1 + 1 \in 1 .. Len(ms) + 1
        BY <1>2, <1>4
  <2>2. /\ c[k] = cut[k + 1] - n /\ c[k] \in Nat /\ cut[k + 1] \in Nat
        /\ c[k + 1] = cut[k + 1 + 1] - n
        BY <1>5, <1>8, <2>1
  <2>3. Tail(ms)[k] = ms[k + 1] /\ Len(ms[k + 1]) \in Nat
        BY <1>2, <1>3, <2>1
  <2>4. cut[k + 1 + 1] = cut[k + 1] + Len(ms[k + 1])
        BY <1>1, <2>1 DEF Cuts
  <2>5. cut[k + 1 + 1] <= Len(s)
    <3>1. /\ k + 1 + 1 <= Len(ms) + 1 /\ Len(ms) + 1 \in 1 .. Len(ms) + 1
          BY <1>2, <1>4, <2>1
    <3>2. cut[k + 1 + 1] <= cut[Len(ms) + 1]
          BY <1>1, <2>1, <3>1 DEF Cuts
    <3>3. cut[Len(ms) + 1] = Len(s)
          BY <1>1 DEF Cuts
    <3> QED BY <3>2, <3>3
  <2>6. ASSUME NEW j \in 1 .. Len(ms[k + 1]) PROVE t[c[k] + j] = ms[k + 1][j]
    <3> DEFINE x == c[k]
               y == cut[k + 1]
               z == cut[k + 1 + 1]
               len == Len(ms[k + 1])
    <3>1. x + j \in 1 .. Len(t) /\ n + (x + j) = y + j
      <4>1. /\ n \in Nat /\ Len(s) \in Nat /\ Len(t) \in Nat /\ Len(t) = Len(s) - n
            /\ x = y - n /\ x \in Nat /\ y \in Nat /\ len \in Nat /\ z = y + len
            /\ z <= Len(s) /\ j \in 1 .. len
            BY <1>4, <2>2, <2>3, <2>4, <2>5
      <4> HIDE DEF x, y, z, len
      <4> QED BY <4>1
    <3>2. t[c[k] + j] = s[n + (c[k] + j)]
          BY <3>1 DEF n
    <3>3. s[cut[k + 1] + j] = ms[k + 1][j]
          BY <1>1, <2>1 DEF Cuts
    <3> QED BY <3>1, <3>2, <3>3
  <2>7. c[k + 1] = c[k] + Len(ms[k + 1])
        BY <1>4, <2>2, <2>3, <2>4
  <2> QED BY <2>3, <2>6, <2>7
<1>13. Cuts(c, t, Tail(ms))
       BY <1>9, <1>10, <1>11, <1>12 DEF Cuts
<1> QED BY <1>13 DEF Spells

\* Another message behind it.
LEMMA SpellsMore ==
    ASSUME NEW s \in Bytes, NEW ms \in Msgs, Spells(s, ms), NEW m \in HostMessages,
           NEW t \in Bytes, Len(t) = Len(s) + Len(m),
           \A i \in 1 .. Len(s) : t[i] = s[i],
           \A i \in 1 .. Len(m) : t[Len(s) + i] = m[i]
    PROVE  Spells(t, Append(ms, m))
<1>1. PICK cut : Cuts(cut, s, ms)
      BY DEF Spells
<1> DEFINE all == Append(ms, m)
           c == [k \in 1 .. Len(all) + 1 |-> IF k = Len(all) + 1 THEN Len(t) ELSE cut[k]]
<1>2. /\ all \in Msgs /\ Len(ms) \in Nat /\ Len(all) = Len(ms) + 1
      /\ \A k \in 1 .. Len(ms) : all[k] = ms[k]
      /\ all[Len(ms) + 1] = m
      BY AppendProperties, LenProperties DEF Msgs
<1>3. \A k \in 1 .. Len(ms) : Len(ms[k]) \in Nat
      BY ElementOfSeq, MessageFacts DEF Msgs
<1>4. Len(m) \in Nat /\ Len(s) \in Nat /\ Len(t) \in Nat
      BY MessageFacts, LenProperties DEF Bytes
<1>5. /\ \A k \in 1 .. Len(ms) + 1 : cut[k] \in Nat
      /\ cut[1] = 0 /\ cut[Len(ms) + 1] = Len(s)
      /\ \A k, l \in 1 .. Len(ms) + 1 : k <= l => cut[k] <= cut[l]
      /\ \A k \in 1 .. Len(ms) : cut[k + 1] = cut[k] + Len(ms[k])
      /\ \A k \in 1 .. Len(ms) : \A j \in 1 .. Len(ms[k]) : s[cut[k] + j] = ms[k][j]
      BY <1>1 DEF Cuts
<1> HIDE DEF all
<1>6. /\ \A k \in 1 .. Len(ms) + 1 : c[k] = cut[k] /\ c[k] \in Nat
      /\ c[Len(ms) + 1 + 1] = Len(t)
      BY <1>2, <1>5
<1>7. c \in [1 .. Len(all) + 1 -> Nat]
      BY <1>2, <1>4, <1>5
<1> HIDE DEF c
<1>8. c[1] = 0 /\ c[Len(all) + 1] = Len(t)
  <2>1. 1 \in 1 .. Len(ms) + 1
        BY <1>2
  <2> QED BY <1>2, <1>5, <1>6, <2>1
<1>9. ASSUME NEW k \in 1 .. Len(ms) + 1 PROVE c[k] <= Len(s)
  <2>1. Len(ms) + 1 \in 1 .. Len(ms) + 1 /\ k <= Len(ms) + 1
        BY <1>2
  <2>2. cut[k] <= cut[Len(ms) + 1]
        BY <1>5, <2>1
  <2> QED BY <1>5, <1>6, <2>2
<1>10. ASSUME NEW k \in 1 .. Len(all) + 1, NEW l \in 1 .. Len(all) + 1, k <= l
       PROVE  c[k] <= c[l]
  <2>1. CASE l \in 1 .. Len(ms) + 1
    <3>1. k \in 1 .. Len(ms) + 1
          BY <1>2, <1>10, <2>1
    <3> QED BY <1>5, <1>6, <1>10, <2>1, <3>1
  <2>2. CASE l \notin 1 .. Len(ms) + 1
    <3>1. l = Len(ms) + 1 + 1 /\ c[l] = Len(t)
          BY <1>2, <1>6, <2>2
    <3>2. CASE k \in 1 .. Len(ms) + 1
          BY <1>4, <1>6, <1>9, <3>1, <3>2
    <3>3. CASE k \notin 1 .. Len(ms) + 1
      <4>1. k = l
            BY <1>2, <3>1, <3>3
      <4> QED BY <1>4, <3>1, <4>1
    <3> QED BY <3>2, <3>3
  <2> QED BY <2>1, <2>2
<1>11. ASSUME NEW k \in 1 .. Len(all)
       PROVE  /\ c[k + 1] = c[k] + Len(all[k])
              /\ \A j \in 1 .. Len(all[k]) : t[c[k] + j] = all[k][j]
  <2>1. CASE k \in 1 .. Len(ms)
    <3>1. k \in 1 .. Len(ms) + 1 /\ k + 1 \in 1 .. Len(ms) + 1
          BY <1>2, <2>1
    <3>2. c[k] = cut[k] /\ c[k + 1] = cut[k + 1] /\ c[k] \in Nat /\ all[k] = ms[k]
          BY <1>2, <1>6, <2>1, <3>1
    <3>3. c[k + 1] = c[k] + Len(ms[k]) /\ Len(ms[k]) \in Nat
          BY <1>3, <1>5, <2>1, <3>2
    <3>4. c[k + 1] <= Len(s)
          BY <1>9, <3>1
    <3>5. ASSUME NEW j \in 1 .. Len(ms[k]) PROVE t[c[k] + j] = ms[k][j]
      <4>1. c[k] + j \in 1 .. Len(s)
            BY <1>4, <3>2, <3>3, <3>4
      <4>2. s[c[k] + j] = ms[k][j]
            BY <1>5, <2>1, <3>2
      <4> QED BY <4>1, <4>2
    <3> QED BY <3>2, <3>3, <3>5
  <2>2. CASE k \notin 1 .. Len(ms)
    <3>1. k = Len(ms) + 1 /\ all[k] = m
          BY <1>2, <2>2
    <3>2. c[k] = Len(s) /\ c[k + 1] = Len(t)
          BY <1>2, <1>5, <1>6, <3>1
    <3> QED BY <1>4, <3>1, <3>2
  <2> QED BY <2>1, <2>2
<1>12. Cuts(c, t, all)
       BY <1>7, <1>8, <1>10, <1>11 DEF Cuts
<1> QED BY <1>12 DEF Spells, all

LEMMA SpellsNothing == Spells(<<>>, <<>>)
<1> DEFINE c == [k \in 1 .. Len(<<>>) + 1 |-> 0]
<1>1. Len(<<>>) = 0
      BY EmptySeq
<1>2. c \in [1 .. Len(<<>>) + 1 -> Nat] /\ c[1] = 0
      BY <1>1
<1>3. \A k \in 1 .. Len(<<>>) + 1 : c[k] = 0
      OBVIOUS
<1> HIDE DEF c
<1>4. 1 .. Len(<<>>) = {} /\ 1 .. Len(<<>>) + 1 = {1}
      BY <1>1
<1>5. Cuts(c, <<>>, <<>>)
      BY <1>1, <1>2, <1>3, <1>4 DEF Cuts
<1> QED BY <1>5 DEF Spells
-----------------------------------------------------------------------------
(* Each step *)

\* What the loop reads as a message in step is the first one expected.
LEMMA HeadFacts ==
    ASSUME TypeOK, InStep, ~trouble, Stream # <<>>
    PROVE  /\ expect # <<>> /\ Head(expect) \in HostMessages
           /\ Len(Head(expect)) <= Len(Stream)
           /\ \A j \in 1 .. Len(Head(expect)) : Stream[j] = Head(expect)[j]
           /\ Remaining(Len(Head(expect))) = Len(Head(expect)) - 2
<1>1. Stream \in Bytes /\ expect \in Msgs /\ Spells(Stream, expect)
      BY StreamFacts DEF Laid, InStep, TypeOK, Msgs
<1>2. /\ expect # <<>> /\ Head(expect) \in HostMessages /\ Head(expect) = expect[1]
      /\ Len(expect[1]) <= Len(Stream)
      /\ \A j \in 1 .. Len(expect[1]) : Stream[j] = expect[1][j]
      BY <1>1, SpellsFirst
<1>3. /\ Len(Head(expect)) \in Nat /\ 2 < Len(Head(expect))
      /\ Len(Head(expect)) <= BUFFERLENGTH
      BY <1>2, MessageFacts
<1>4. Remaining(Len(Head(expect))) = Len(Head(expect)) - 2
      BY <1>3, FramingAssumption DEF Remaining
<1> QED BY <1>2, <1>4

\* In the body of a message its length is known.
LEMMA BodyFacts ==
    ASSUME TypeOK, InStep, ~trouble, phase = "body"
    PROVE  /\ Stream # <<>>
           /\ msgSize = Len(Head(expect))
           /\ Remaining(msgSize) = msgSize - 2
           /\ msgSize \in Nat /\ 2 < msgSize
           /\ msgSize - 2 <= Len(rx) + Len(flight)
<1>1. /\ Stream \in Bytes /\ Len(Stream) = 2 + Len(rx) + Len(flight)
      /\ Len(rx) \in Nat /\ Len(flight) \in Nat
      /\ Stream[1] = buffer_bytes[0] /\ Stream[2] = buffer_bytes[1]
  <2>1. Len(Read) = 2
        BY StreamFacts DEF Laid
  <2> QED BY <2>1, StreamFacts DEF Laid
<1>2. Stream # <<>>
  <2>1. Len(Stream) # 0
        BY <1>1
  <2> QED BY <2>1, EmptySeq
<1>3. /\ Head(expect) \in HostMessages
      /\ Len(Head(expect)) <= Len(Stream)
      /\ \A j \in 1 .. Len(Head(expect)) : Stream[j] = Head(expect)[j]
      /\ Remaining(Len(Head(expect))) = Len(Head(expect)) - 2
      BY <1>2, HeadFacts
<1>4. /\ Len(Head(expect)) \in Nat /\ 2 < Len(Head(expect))
      /\ MsgSize(Head(expect)[1], Head(expect)[2]) = Len(Head(expect))
      BY <1>3, MessageFacts
<1>5. Head(expect)[1] = buffer_bytes[0] /\ Head(expect)[2] = buffer_bytes[1]
  <2>1. 1 \in 1 .. Len(Head(expect)) /\ 2 \in 1 .. Len(Head(expect))
        BY <1>4
  <2> QED BY <1>1, <1>3, <2>1
<1>6. msgSize = Len(Head(expect))
      BY <1>4, <1>5 DEF InStep
<1>7. Len(Head(expect)) - 2 <= Len(rx) + Len(flight)
      BY <1>1, <1>3, <1>4
<1> QED BY <1>2, <1>3, <1>4, <1>6, <1>7

\* The length word becomes part of the message in hand.
LEMMA HeaderKeepsStep == TypeOK /\ InStep /\ ReadHeader => InStep'
<1> SUFFICES ASSUME TypeOK, InStep, ReadHeader PROVE InStep'
    OBVIOUS
<1>1. /\ phase = "idle" /\ Len(rx) >= 2 /\ rx \in Bytes /\ 2 \in 0 .. Len(rx)
      /\ Len(rx) \in Nat /\ flight \in Bytes /\ Len(flight) \in Nat
      BY StreamFacts DEF Laid, ReadHeader, Header
<1>2. /\ buffer_bytes' = Filled(0, SubSeq(rx, 1, 2))
      /\ rx' = SubSeq(rx, 2 + 1, Len(rx))
      /\ msgSize' = MsgSize(buffer_bytes'[0], buffer_bytes'[1])
      /\ phase' = IF Remaining(msgSize') > 0 THEN "body" ELSE "idle"
      /\ UNCHANGED <<flight, expect, trouble>>
      BY DEF ReadHeader, Header
<1>3. /\ Len(SubSeq(rx, 1, 2)) = 2
      /\ \A i \in 1 .. 2 : SubSeq(rx, 1, 2)[i] = rx[i]
      /\ rx' \in Bytes /\ Len(rx') = Len(rx) - 2
      /\ \A i \in 1 .. Len(rx) - 2 : rx'[i] = rx[2 + i]
      BY <1>1, <1>2, TailBytes
<1>4. buffer_bytes'[0] = rx[1] /\ buffer_bytes'[1] = rx[2]
  <2>1. 0 \in Index /\ 1 \in Index
        BY FramingAssumption DEF Index
  <2>2. 0 \in 0 .. 0 + 2 - 1 /\ 1 \in 0 .. 0 + 2 - 1 /\ 0 - 0 + 1 = 1 /\ 1 - 0 + 1 = 2
        OBVIOUS
  <2>3. SubSeq(rx, 1, 2)[1] = rx[1] /\ SubSeq(rx, 1, 2)[2] = rx[2]
        BY <1>3
  <2> QED BY <1>2, <1>3, <2>1, <2>2, <2>3 DEF Filled
<1>5. ASSUME ~trouble PROVE Spells(Stream', expect')
  <2>1. /\ Stream \in Bytes /\ Len(Read) = 0 /\ Len(Stream) = Len(rx) + Len(flight)
        /\ \A i \in 1 .. Len(rx) : Stream[i] = rx[i]
        /\ \A i \in 1 .. Len(flight) : Stream[Len(rx) + i] = flight[i]
    <3>1. /\ Stream \in Bytes /\ Len(Read) = 0 /\ Len(Stream) = 0 + Len(rx) + Len(flight)
          /\ \A i \in 1 .. Len(rx) : Stream[0 + i] = rx[i]
          /\ \A i \in 1 .. Len(flight) : Stream[0 + Len(rx) + i] = flight[i]
      <4>1. Len(Read) = 0
            BY <1>1, StreamFacts DEF Laid
      <4> QED BY <4>1, StreamFacts DEF Laid
    <3>2. 0 + Len(rx) = Len(rx) /\ \A i \in Nat : 0 + i = i
          BY <1>1
    <3> QED BY <1>1, <3>1, <3>2
  <2>2. Stream # <<>>
    <3>1. Len(Stream) # 0
          BY <1>1, <2>1
    <3> QED BY <3>1, EmptySeq
  <2>3. /\ Head(expect) \in HostMessages
        /\ Len(Head(expect)) <= Len(Stream)
        /\ \A j \in 1 .. Len(Head(expect)) : Stream[j] = Head(expect)[j]
        /\ Remaining(Len(Head(expect))) = Len(Head(expect)) - 2
        BY <1>5, <2>2, HeadFacts
  <2>4. /\ Len(Head(expect)) \in Nat /\ 2 < Len(Head(expect))
        /\ MsgSize(Head(expect)[1], Head(expect)[2]) = Len(Head(expect))
        BY <2>3, MessageFacts
  <2>5. Head(expect)[1] = rx[1] /\ Head(expect)[2] = rx[2]
    <3>1. /\ 1 \in 1 .. Len(Head(expect)) /\ 2 \in 1 .. Len(Head(expect))
          /\ 1 \in 1 .. Len(rx) /\ 2 \in 1 .. Len(rx)
          BY <1>1, <2>4
    <3> QED BY <2>1, <2>3, <3>1
  <2>6. phase' = "body"
    <3>1. msgSize' = Len(Head(expect))
          BY <1>2, <1>4, <2>4, <2>5
    <3>2. Remaining(msgSize') > 0
          BY <2>3, <2>4, <3>1
    <3> QED BY <1>2, <3>2
  <2>7. TypeOK'
        BY NextKeepsTypes DEF Next, SerialCallback
  <2>8. /\ Stream' \in Bytes /\ Len(Read') = 2
        /\ Len(Stream') = 2 + Len(rx') + Len(flight)
        /\ Stream'[1] = rx[1] /\ Stream'[2] = rx[2]
        /\ \A i \in 1 .. Len(rx') : Stream'[2 + i] = rx'[i]
        /\ \A i \in 1 .. Len(flight) : Stream'[2 + Len(rx') + i] = flight[i]
        BY <1>2, <1>4, <2>6, <2>7, StreamPrimed DEF Laid
  <2>9. Len(Stream') = Len(Stream)
        BY <1>1, <1>3, <2>1, <2>8
  <2>10. ASSUME NEW i \in 1 .. Len(Stream) PROVE Stream'[i] = Stream[i]
    <3>1. CASE i = 1 \/ i = 2
          BY <1>1, <2>1, <2>8, <3>1
    <3>2. CASE i \in 3 .. Len(rx)
      <4>1. /\ i - 2 \in 1 .. Len(rx) - 2 /\ i - 2 \in 1 .. Len(rx') /\ 2 + (i - 2) = i
            /\ i \in 1 .. Len(rx)
            BY <1>1, <1>3, <3>2
      <4>2. Stream'[i] = rx'[i - 2] /\ rx'[i - 2] = rx[i]
            BY <1>3, <2>8, <4>1
      <4> QED BY <2>1, <4>1, <4>2
    <3>3. CASE i \in Len(rx) + 1 .. Len(Stream)
      <4>1. /\ i - Len(rx) \in 1 .. Len(flight) /\ Len(rx) + (i - Len(rx)) = i
            /\ 2 + Len(rx') + (i - Len(rx)) = i
            BY <1>1, <1>3, <2>1, <3>3
      <4>2. Stream'[i] = flight[i - Len(rx)] /\ Stream[i] = flight[i - Len(rx)]
            BY <2>1, <2>8, <4>1
      <4> QED BY <4>2
    <3> QED BY <1>1, <2>1, <3>1, <3>2, <3>3
  <2>11. Stream' = Stream
         BY <2>1, <2>8, <2>9, <2>10, SeqEqual DEF Bytes
  <2> QED BY <1>2, <1>5, <2>11 DEF InStep
<1> QED BY <1>2, <1>5 DEF InStep

\* A length word of which one byte has come, with nothing behind it, is no message:
\* one that is in step is more than two bytes long.
LEMMA HeaderTimeoutKeepsStep == TypeOK /\ InStep /\ HeaderTimeout => InStep'
<1> SUFFICES ASSUME TypeOK, InStep, HeaderTimeout PROVE InStep'
    OBVIOUS
<1>1. /\ phase = "idle" /\ Len(rx) = 1
      /\ msgSize' = MsgSize(buffer_bytes'[0], buffer_bytes'[1])
      /\ trouble' = (trouble \/ flight # <<>>)
      BY DEF HeaderTimeout, Header
<1>2. ASSUME ~trouble, flight = <<>> PROVE FALSE
  <2>1. Len(Stream) = 1
    <3>1. /\ Len(Read) = 0 /\ Len(flight) = 0
          /\ Len(Stream) = Len(Read) + Len(rx) + Len(flight)
          BY <1>1, <1>2, StreamFacts, EmptySeq DEF Laid
    <3> QED BY <1>1, <3>1
  <2>2. Stream # <<>>
        BY <2>1, EmptySeq
  <2>3. Head(expect) \in HostMessages /\ Len(Head(expect)) <= Len(Stream)
        BY <1>2, <2>2, HeadFacts
  <2>4. Len(Head(expect)) \in Nat /\ 2 < Len(Head(expect))
        BY <2>3, MessageFacts
  <2> QED BY <2>1, <2>3, <2>4
<1> QED BY <1>1, <1>2 DEF InStep

\* The message in hand is taken from the stream and from those expected.
LEMMA BodyKeepsStep == TypeOK /\ InStep /\ ReadBody => InStep'
<1> SUFFICES ASSUME TypeOK, InStep, ReadBody PROVE InStep'
    OBVIOUS
<1>1. /\ phase = "body" /\ phase' = "idle"
      /\ rx' = SubSeq(rx, Remaining(msgSize) + 1, Len(rx))
      /\ expect' = IF expect = <<>> THEN <<>> ELSE Tail(expect)
      /\ Len(rx) >= Remaining(msgSize)
      /\ UNCHANGED <<flight, trouble>>
      BY DEF ReadBody
<1>2. ASSUME ~trouble PROVE Spells(Stream', expect')
  <2>1. /\ Stream # <<>> /\ msgSize = Len(Head(expect))
        /\ Remaining(msgSize) = msgSize - 2 /\ msgSize \in Nat /\ 2 < msgSize
        BY <1>1, <1>2, BodyFacts
  <2>2. /\ Stream \in Bytes /\ rx \in Bytes
        /\ Len(rx) \in Nat /\ Len(flight) \in Nat
        /\ Len(Stream) = 2 + Len(rx) + Len(flight)
        /\ \A i \in 1 .. Len(rx) : Stream[2 + i] = rx[i]
        /\ \A i \in 1 .. Len(flight) : Stream[2 + Len(rx) + i] = flight[i]
    <3>1. Len(Read) = 2
          BY <1>1, StreamFacts DEF Laid
    <3> QED BY <3>1, StreamFacts DEF Laid
  <2>3. Remaining(msgSize) \in 0 .. Len(rx)
        BY <1>1, <2>1, <2>2
  <2>4. /\ Len(rx') = Len(rx) - Remaining(msgSize)
        /\ \A i \in 1 .. Len(rx) - Remaining(msgSize) : rx'[i] = rx[Remaining(msgSize) + i]
        BY <1>1, <2>2, <2>3, TailBytes
  <2>5. TypeOK'
        BY NextKeepsTypes DEF Next, SerialCallback
  <2>6. /\ Stream' \in Bytes /\ Len(Stream') = Len(rx') + Len(flight)
        /\ \A i \in 1 .. Len(rx') : Stream'[i] = rx'[i]
        /\ \A i \in 1 .. Len(flight) : Stream'[Len(rx') + i] = flight[i]
    <3>1. Len(Read') = 0
          BY <1>1, <2>5, StreamPrimed DEF Laid
    <3>2. /\ Stream' \in Bytes /\ Len(Stream') = 0 + Len(rx') + Len(flight)
          /\ \A i \in 1 .. Len(rx') : Stream'[0 + i] = rx'[i]
          /\ \A i \in 1 .. Len(flight) : Stream'[0 + Len(rx') + i] = flight[i]
          BY <1>1, <2>5, <3>1, StreamPrimed DEF Laid
    <3>3. Len(rx') \in Nat /\ 0 + Len(rx') = Len(rx') /\ \A i \in Nat : 0 + i = i
          BY <2>5, StreamPrimed DEF Laid
    <3> QED BY <2>2, <3>2, <3>3
  <2>7. Len(Stream') = Len(Stream) - msgSize
        BY <2>1, <2>2, <2>4, <2>6
  <2>8a. /\ Len(rx) \in Nat /\ Len(flight) \in Nat /\ msgSize \in Nat /\ 2 < msgSize
         /\ Remaining(msgSize) = msgSize - 2 /\ msgSize - 2 <= Len(rx)
         /\ Len(rx') = Len(rx) - (msgSize - 2) /\ Len(Stream') = Len(rx') + Len(flight)
    <3>1. Len(rx') = Len(rx) - Remaining(msgSize)
          BY <2>4
    <3>2. Len(Stream') = Len(rx') + Len(flight)
          BY <2>6
    <3> QED BY <1>1, <2>1, <2>2, <3>1, <3>2
  <2>8. ASSUME NEW i \in 1 .. Len(Stream') PROVE Stream'[i] = Stream[msgSize + i]
    <3>1. CASE i \in 1 .. Len(rx')
      <4>1. /\ i \in 1 .. Len(rx) - Remaining(msgSize)
            /\ Remaining(msgSize) + i \in 1 .. Len(rx)
            /\ 2 + (Remaining(msgSize) + i) = msgSize + i
            BY <2>8a, <3>1
      <4>2. Stream'[i] = rx[Remaining(msgSize) + i]
            BY <2>4, <2>6, <3>1, <4>1
      <4>3. Stream[2 + (Remaining(msgSize) + i)] = rx[Remaining(msgSize) + i]
            BY <2>2, <4>1
      <4> QED BY <4>1, <4>2, <4>3
    <3>2. CASE i \in Len(rx') + 1 .. Len(Stream')
      <4>1. /\ i - Len(rx') \in 1 .. Len(flight) /\ Len(rx') + (i - Len(rx')) = i
            /\ 2 + Len(rx) + (i - Len(rx')) = msgSize + i
            BY <2>8a, <3>2
      <4>2. Stream'[Len(rx') + (i - Len(rx'))] = flight[i - Len(rx')]
            BY <2>6, <4>1
      <4>3. Stream[2 + Len(rx) + (i - Len(rx'))] = flight[i - Len(rx')]
            BY <2>2, <4>1
      <4> QED BY <4>1, <4>2, <4>3
    <3>3. Len(rx') \in Nat /\ Len(Stream') \in Nat
          BY <2>2, <2>3, <2>4, <2>6
    <3> QED BY <3>1, <3>2, <3>3
  <2>9. /\ expect \in Msgs /\ Spells(Stream, expect)
        /\ expect # <<>> /\ Head(expect) = expect[1]
        BY <1>2, <2>1, <2>2, SpellsFirst DEF InStep, TypeOK, Msgs
  <2>10. Spells(Stream', Tail(expect))
    <3>1. msgSize = Len(expect[1])
          BY <2>1, <2>9
    <3>2. /\ Len(Stream') = Len(Stream) - Len(expect[1])
          /\ \A i \in 1 .. Len(Stream') : Stream'[i] = Stream[Len(expect[1]) + i]
          BY <2>7, <2>8, <3>1
    <3> QED BY <2>1, <2>2, <2>6, <2>9, <3>2, SpellsRest
  <2> QED BY <1>1, <2>9, <2>10
<1> QED BY <1>1, <1>2 DEF InStep

\* A message in step comes in time unless part of it is still on its way.
LEMMA BodyTimeoutKeepsStep == TypeOK /\ InStep /\ BodyTimeout => InStep'
<1> SUFFICES ASSUME TypeOK, InStep, BodyTimeout PROVE InStep'
    OBVIOUS
<1>1. /\ phase = "body" /\ phase' = "idle" /\ Len(rx) < Remaining(msgSize)
      /\ trouble' = (trouble \/ flight # <<>>)
      BY DEF BodyTimeout
<1>2. ASSUME ~trouble, flight = <<>> PROVE FALSE
  <2>1. /\ Remaining(msgSize) = msgSize - 2 /\ msgSize \in Nat
        /\ msgSize - 2 <= Len(rx) + Len(flight)
        BY <1>1, <1>2, BodyFacts
  <2>2. Len(flight) = 0 /\ Len(rx) \in Nat
        BY <1>2, StreamFacts, EmptySeq DEF Laid
  <2> QED BY <1>1, <2>1, <2>2
<1> QED BY <1>1, <1>2 DEF InStep

\* A message on a quiet line begins a stream, any other one lengthens it.
LEMMA SendKeepsStep == TypeOK /\ InStep /\ HostSend => InStep'
<1> SUFFICES ASSUME TypeOK, InStep, HostSend PROVE InStep'
    OBVIOUS
<1> DEFINE ms == IF Quiet THEN <<>> ELSE expect
<1>1. PICK m \in HostMessages : flight' = flight \o m /\ expect' = Append(ms, m)
      BY DEF HostSend
<1>2. /\ trouble' = (trouble /\ ~Quiet)
      /\ UNCHANGED <<buffer_bytes, phase, msgSize, rx>>
      BY DEF HostSend
<1>3. Laid(phase, buffer_bytes, rx, flight, Read, Stream)
      BY StreamFacts
<1>4. Laid(phase, buffer_bytes, rx, flight', Read, Stream')
  <2>1. TypeOK'
        BY NextKeepsTypes DEF Next
  <2>2. Read' = Read
        BY <1>2 DEF Read
  <2> QED BY <1>2, <2>1, <2>2, StreamPrimed
<1>5. ASSUME ~trouble \/ Quiet PROVE Spells(Stream, ms) /\ ms \in Msgs
  <2>1. CASE Quiet
    <3>1. Len(Stream) = 0
      <4>1. Len(Read) = 0 /\ Len(rx) = 0 /\ Len(flight) = 0
            BY <1>3, <2>1, EmptySeq DEF Quiet, Laid
      <4>2. Len(Stream) = Len(Read) + Len(rx) + Len(flight)
            BY <1>3 DEF Laid
      <4> QED BY <4>1, <4>2
    <3>2. Stream = <<>>
          BY <1>3, <3>1, EmptySeq DEF Laid, Bytes
    <3> QED BY <2>1, <3>2, SpellsNothing, EmptySeq DEF Msgs
  <2>2. CASE ~Quiet
        BY <1>5, <2>2 DEF InStep, TypeOK, Msgs
  <2> QED BY <2>1, <2>2
<1> HIDE DEF ms
<1>6. /\ m \in Bytes /\ Len(m) \in Nat
      /\ Len(flight') = Len(flight) + Len(m)
      /\ \A i \in 1 .. Len(flight) + Len(m) :
            flight'[i] = IF i <= Len(flight) THEN flight[i] ELSE m[i - Len(flight)]
      BY <1>1, <1>3, MessageFacts, ConcatProperties DEF Laid, Bytes
<1>7. /\ Stream \in Bytes /\ Stream' \in Bytes
      /\ Len(Read) \in Nat /\ Len(rx) \in Nat /\ Len(flight) \in Nat
      /\ Len(Stream) = Len(Read) + Len(rx) + Len(flight)
      /\ Len(Stream') = Len(Read) + Len(rx) + Len(flight')
      BY <1>3, <1>4 DEF Laid
<1>8. Len(Stream') = Len(Stream) + Len(m)
      BY <1>6, <1>7
<1>9. ASSUME NEW i \in 1 .. Len(Stream) PROVE Stream'[i] = Stream[i]
  <2>1. CASE i \in 1 .. Len(Read)
    <3>1. phase = "body" /\ (i = 1 \/ i = 2)
          BY <1>3, <2>1 DEF Laid
    <3> QED BY <1>3, <1>4, <3>1 DEF Laid
  <2>2. CASE i \in Len(Read) + 1 .. Len(Read) + Len(rx)
    <3> DEFINE j == i - Len(Read)
    <3>1. j \in 1 .. Len(rx) /\ Len(Read) + j = i
          BY <1>7, <2>2
    <3> HIDE DEF j
    <3>2. Stream[Len(Read) + j] = rx[j] /\ Stream'[Len(Read) + j] = rx[j]
          BY <1>3, <1>4, <3>1 DEF Laid
    <3> QED BY <3>1, <3>2
  <2>3. CASE i \in Len(Read) + Len(rx) + 1 .. Len(Stream)
    <3> DEFINE j == i - (Len(Read) + Len(rx))
    <3>1. /\ j \in 1 .. Len(flight) /\ j \in 1 .. Len(flight') /\ j \in 1 .. Len(flight) + Len(m)
          /\ j <= Len(flight) /\ Len(Read) + Len(rx) + j = i
          BY <1>6, <1>7, <2>3
    <3> HIDE DEF j
    <3>2. Stream[Len(Read) + Len(rx) + j] = flight[j]
          BY <1>3, <3>1 DEF Laid
    <3>3. Stream'[Len(Read) + Len(rx) + j] = flight'[j]
          BY <1>4, <3>1 DEF Laid
    <3>4. flight'[j] = flight[j]
          BY <1>6, <3>1
    <3> QED BY <3>1, <3>2, <3>3, <3>4
  <2> QED BY <1>7, <2>1, <2>2, <2>3
<1>10. ASSUME NEW i \in 1 .. Len(m) PROVE Stream'[Len(Stream) + i] = m[i]
  <2> DEFINE j == Len(flight) + i
  <2>1. /\ j \in 1 .. Len(flight') /\ j \in 1 .. Len(flight) + Len(m)
        /\ ~(j <= Len(flight)) /\ j - Len(flight) = i
        /\ Len(Read) + Len(rx) + j = Len(Stream) + i
        BY <1>6, <1>7
  <2> HIDE DEF j
  <2>2. Stream'[Len(Read) + Len(rx) + j] = flight'[j]
        BY <1>4, <2>1 DEF Laid
  <2>3. flight'[j] = m[j - Len(flight)]
        BY <1>6, <2>1
  <2> QED BY <2>1, <2>2, <2>3
<1>11. ASSUME ~trouble' PROVE Spells(Stream', expect')
  <2>1. Spells(Stream, ms) /\ ms \in Msgs
        BY <1>2, <1>5, <1>11
  <2>2. Spells(Stream', Append(ms, m))
        BY <1>7, <1>8, <1>9, <1>10, <2>1, SpellsMore
  <2> QED BY <1>1, <2>2
<1> QED BY <1>2, <1>11 DEF InStep

\* A byte that arrives stays where it is in the stream.
LEMMA ArriveKeepsStep == TypeOK /\ InStep /\ Arrive => InStep'
<1> SUFFICES ASSUME TypeOK, InStep, Arrive PROVE InStep'
    OBVIOUS
<1>1. /\ flight # <<>> /\ rx' = Append(rx, Head(flight)) /\ flight' = Tail(flight)
      /\ UNCHANGED <<buffer_bytes, phase, msgSize, expect, trouble>>
      BY DEF Arrive
<1>2. Read' = Read /\ Laid(phase, buffer_bytes, rx, flight, Read, Stream)
      BY <1>1, StreamFacts DEF Read
<1>3. Laid(phase, buffer_bytes, rx', flight', Read, Stream')
  <2>1. TypeOK'
        BY NextKeepsTypes DEF Next
  <2> QED BY <1>1, <1>2, <2>1, StreamPrimed
<1>4. /\ rx \in Bytes /\ flight \in Bytes
      /\ Stream \in Bytes /\ Stream' \in Bytes
      /\ Len(Read) \in Nat /\ Len(rx) \in Nat /\ Len(flight) \in Nat /\ Len(flight') \in Nat
      /\ Len(Stream) = Len(Read) + Len(rx) + Len(flight)
      /\ Len(Stream') = Len(Read) + Len(rx') + Len(flight')
      BY <1>2, <1>3 DEF Laid
<1>5. /\ Head(flight) = flight[1] /\ Head(flight) \in Byte
      /\ Len(flight') = Len(flight) - 1
      /\ \A i \in 1 .. Len(flight') : flight'[i] = flight[i + 1]
      BY <1>1, <1>4, HeadTailProperties DEF Bytes
<1>6. /\ Len(rx') = Len(rx) + 1
      /\ \A i \in 1 .. Len(rx) : rx'[i] = rx[i]
      /\ rx'[Len(rx) + 1] = flight[1]
      BY <1>1, <1>4, <1>5, AppendProperties DEF Bytes
<1>7. Len(Stream') = Len(Stream)
      BY <1>4, <1>5, <1>6
<1>8. ASSUME NEW i \in 1 .. Len(Stream) PROVE Stream'[i] = Stream[i]
  <2>1. CASE i \in 1 .. Len(Read)
    <3>1. phase = "body" /\ (i = 1 \/ i = 2)
          BY <1>2, <2>1 DEF Laid
    <3> QED BY <1>2, <1>3, <3>1 DEF Laid
  <2>2. CASE i \in Len(Read) + 1 .. Len(Read) + Len(rx)
    <3> DEFINE j == i - Len(Read)
    <3>1. j \in 1 .. Len(rx) /\ j \in 1 .. Len(rx') /\ Len(Read) + j = i
          BY <1>4, <1>6, <2>2
    <3> HIDE DEF j
    <3>2. Stream[Len(Read) + j] = rx[j] /\ Stream'[Len(Read) + j] = rx'[j]
          BY <1>2, <1>3, <3>1 DEF Laid
    <3> QED BY <1>6, <3>1, <3>2
  <2>3. CASE i = Len(Read) + Len(rx) + 1
    <3>1. 1 \in 1 .. Len(flight) /\ Len(rx) + 1 \in 1 .. Len(rx')
          BY <1>4, <1>5, <1>6
    <3>2. Stream[Len(Read) + Len(rx) + 1] = flight[1]
          BY <1>2, <3>1 DEF Laid
    <3>3. Stream'[Len(Read) + (Len(rx) + 1)] = rx'[Len(rx) + 1]
          BY <1>3, <3>1 DEF Laid
    <3>4. Len(Read) + (Len(rx) + 1) = i
          BY <1>4, <2>3
    <3> QED BY <1>6, <2>3, <3>2, <3>3, <3>4
  <2>4. CASE i \in Len(Read) + Len(rx) + 2 .. Len(Stream)
    <3> DEFINE j == i - (Len(Read) + Len(rx) + 1)
    <3>1. /\ j \in 1 .. Len(flight') /\ j + 1 \in 1 .. Len(flight)
          /\ Len(Read) + Len(rx') + j = i /\ Len(Read) + Len(rx) + (j + 1) = i
          BY <1>4, <1>5, <1>6, <2>4
    <3> HIDE DEF j
    <3>2. Stream[Len(Read) + Len(rx) + (j + 1)] = flight[j + 1]
          BY <1>2, <3>1 DEF Laid
    <3>3. Stream'[Len(Read) + Len(rx') + j] = flight'[j]
          BY <1>3, <3>1 DEF Laid
    <3>4. flight'[j] = flight[j + 1]
          BY <1>5, <3>1
    <3> QED BY <3>1, <3>2, <3>3, <3>4
  <2> QED BY <1>4, <2>1, <2>2, <2>3, <2>4
<1>9. Stream' = Stream
      BY <1>4, <1>7, <1>8, SeqEqual DEF Bytes
<1> QED BY <1>1, <1>9 DEF InStep

LEMMA InStepHolds == Spec => [](TypeOK /\ InStep)
<1>1. Init => TypeOK /\ InStep
  <2> SUFFICES ASSUME Init PROVE TypeOK /\ InStep
      OBVIOUS
  <2>1. TypeOK /\ phase = "idle" /\ rx = <<>> /\ flight = <<>> /\ expect = <<>>
        BY InitTypes DEF Init
  <2>2. Laid(phase, buffer_bytes, rx, flight, Read, Stream)
        BY <2>1, StreamFacts
  <2>3. Len(Stream) = 0
    <3>1. Len(Read) = 0 /\ Len(rx) = 0 /\ Len(flight) = 0
          BY <2>1, <2>2, EmptySeq DEF Laid
    <3>2. Len(Stream) = Len(Read) + Len(rx) + Len(flight)
          BY <2>2 DEF Laid
    <3> QED BY <3>1, <3>2
  <2>4. Stream = <<>>
        BY <2>2, <2>3, EmptySeq DEF Laid, Bytes
  <2> QED BY <2>1, <2>4, SpellsNothing DEF InStep
<1>2. TypeOK /\ InStep /\ [Next]_vars => (TypeOK /\ InStep)'
  <2> SUFFICES ASSUME TypeOK, InStep, [Next]_vars PROVE InStep'
      BY NextKeepsTypes
  <2>1. CASE ReadHeader
        BY <2>1, HeaderKeepsStep
  <2>2. CASE HeaderTimeout
        BY <2>2, HeaderTimeoutKeepsStep
  <2>3. CASE ReadBody
        BY <2>3, BodyKeepsStep
  <2>4. CASE BodyTimeout
        BY <2>4, BodyTimeoutKeepsStep
  <2>5. CASE HostSend
        BY <2>5, SendKeepsStep
  <2>6. CASE Arrive
        BY <2>6, ArriveKeepsStep
  <2>7. CASE Lose
        BY <2>7 DEF Lose, InStep
  <2>8. CASE UNCHANGED vars
        BY <2>8 DEF vars, link, InStep, Stream, StreamOf, ReadOf
  <2> QED BY <2>1, <2>2, <2>3, <2>4, <2>5, <2>6, <2>7, <2>8 DEF Next, SerialCallback
<1> QED BY <1>1, <1>2, PTL DEF Spec

\* From the first message on a quiet line on, until a byte is lost or late, what the
\* loop hands on is what the host sent: each message once, whole, and in order.
THEOREM HandlesWhatWasSentHolds == Spec => HandlesWhatWasSent
<1>1. TypeOK /\ InStep =>
        [ReadBody /\ ~trouble =>
            /\ expect # <<>>
            /\ msgSize = Len(Head(expect))
            /\ \A j \in 1 .. msgSize : buffer_bytes'[j - 1] = Head(expect)[j]]_vars
  <2> SUFFICES ASSUME TypeOK, InStep, ReadBody, ~trouble
               PROVE  /\ expect # <<>>
                      /\ msgSize = Len(Head(expect))
                      /\ \A j \in 1 .. msgSize : buffer_bytes'[j - 1] = Head(expect)[j]
      OBVIOUS
  <2> DEFINE rest == Remaining(msgSize)
  <2>1. /\ phase = "body" /\ Len(rx) >= rest
        /\ buffer_bytes' = Filled(2, SubSeq(rx, 1, rest))
        BY DEF ReadBody
  <2>2. /\ Stream # <<>> /\ msgSize = Len(Head(expect))
        /\ rest = msgSize - 2 /\ msgSize \in Nat /\ 2 < msgSize
        BY <2>1, BodyFacts
  <2>3. expect # <<>> /\ \A j \in 1 .. msgSize : Stream[j] = Head(expect)[j]
        BY <2>2, HeadFacts
  <2>4. /\ rx \in Bytes /\ Len(rx) \in Nat
        /\ Stream[1] = buffer_bytes[0] /\ Stream[2] = buffer_bytes[1]
        /\ \A i \in 1 .. Len(rx) : Stream[2 + i] = rx[i]
    <3>1. Len(Read) = 2
          BY <2>1, StreamFacts DEF Laid
    <3> QED BY <2>1, <3>1, StreamFacts DEF Laid
  <2>5. msgSize <= BUFFERLENGTH /\ BUFFERLENGTH \in Nat
        BY <2>2, HeadFacts, MessageFacts, FramingAssumption
  <2> HIDE DEF rest
  <2>6. /\ Len(SubSeq(rx, 1, rest)) = rest
        /\ \A i \in 1 .. rest : SubSeq(rx, 1, rest)[i] = rx[i]
    <3>1. rest \in 0 .. Len(rx)
          BY <2>1, <2>2, <2>4
    <3> QED BY <2>4, <3>1, TailBytes
  <2>7. ASSUME NEW j \in 1 .. msgSize PROVE buffer_bytes'[j - 1] = Head(expect)[j]
    <3> DEFINE i == j - 1
    <3>1. i \in Index
          BY <2>2, <2>5 DEF Index
    <3>2. CASE j = 1 \/ j = 2
      <4>1. i \notin 2 .. 2 + rest - 1
            BY <3>2
      <4>2. buffer_bytes'[i] = buffer_bytes[i]
            BY <2>1, <2>6, <3>1, <4>1 DEF Filled
      <4> QED BY <2>3, <2>4, <3>2, <4>2
    <3>3. CASE j \in 3 .. msgSize
      <4>1. /\ i \in 2 .. 2 + rest - 1 /\ i - 2 + 1 = j - 2
            /\ j - 2 \in 1 .. rest /\ j - 2 \in 1 .. Len(rx) /\ 2 + (j - 2) = j
            BY <2>1, <2>2, <2>4, <3>3
      <4> HIDE DEF i
      <4>2. buffer_bytes'[i] = SubSeq(rx, 1, rest)[i - 2 + 1]
            BY <2>1, <2>6, <3>1, <4>1 DEF Filled
      <4>3. SubSeq(rx, 1, rest)[j - 2] = rx[j - 2] /\ Stream[2 + (j - 2)] = rx[j - 2]
            BY <2>4, <2>6, <4>1
      <4>4. buffer_bytes'[i] = Head(expect)[j]
            BY <2>3, <4>1, <4>2, <4>3
      <4> QED BY <4>4 DEF i
    <3> QED BY <2>2, <3>2, <3>3
  <2> QED BY <2>2, <2>3, <2>7
<1> QED BY <1>1, InStepHolds, PTL DEF HandlesWhatWasSent
=============================================================================

---------------------------- MODULE Sentry_proofs ----------------------------
(***************************************************************************)
(* Theorems about Sentry, for every size of a byte and of a message and    *)
(* every sweep: what is published is what was sampled, and nothing is left *)
(* when the servo is parked, whenever samples are taken.  The last part is *)
(* about the clock that says when.                                         *)
(***************************************************************************)
EXTENDS Sentry, TLAPS

(***************************************************************************)
(* Quotient and remainder                                                  *)
(***************************************************************************)

LEMMA DivMod ==
    ASSUME NEW n \in Nat, NEW b \in Nat \ {0}
    PROVE  /\ n \div b \in Nat /\ n % b \in 0 .. b - 1
           /\ n = b * (n \div b) + (n % b)
OBVIOUS

LEMMA MulMono ==
    ASSUME NEW b \in Nat, NEW x \in Nat, NEW y \in Nat, x <= y
    PROVE  b * x <= b * y /\ b * x \in Nat /\ b * y \in Nat
OBVIOUS

LEMMA DivUnique ==
    ASSUME NEW n \in Nat, NEW b \in Nat \ {0}, NEW q \in Nat, NEW r \in 0 .. b - 1,
           n = b * q + r
    PROVE  q = n \div b /\ r = n % b
<1>1. n \div b \in Nat /\ n % b \in 0 .. b - 1 /\ n = b * (n \div b) + (n % b)
  BY DivMod
<1>2. ASSUME NEW x \in Nat, NEW y \in Nat, NEW s \in 0 .. b - 1, NEW t \in 0 .. b - 1,
             b * x + s = b * y + t, x < y
      PROVE  FALSE
  <2>1. b * (x + 1) <= b * y
    BY <1>2, MulMono
  <2>2. b * (x + 1) = b * x + b
    OBVIOUS
  <2>3. b * x \in Nat /\ b * y \in Nat
    OBVIOUS
  <2> QED
    BY <1>2, <2>1, <2>2, <2>3
<1>3. q = n \div b
  BY <1>1, <1>2
<1> QED
  BY <1>1, <1>3

\* Where sample number n goes: its byte exists, and its place is its own.
LEMMA Place ==
    ASSUME NEW n \in 0 .. Samples - 1
    PROVE  /\ n \div BITS \in 0 .. BYTES - 1 /\ n % BITS \in 0 .. BITS - 1
           /\ n = BITS * (n \div BITS) + (n % BITS)
<1>1. BITS \in Nat \ {0} /\ BYTES \in Nat \ {0} /\ Samples \in Nat /\ n \in Nat
  BY SweepAssumption DEF Samples
<1>2. n \div BITS \in Nat /\ n % BITS \in 0 .. BITS - 1 /\ n = BITS * (n \div BITS) + (n % BITS)
  BY <1>1, DivMod
<1>3. ~(BYTES <= n \div BITS)
  <2>1. BYTES <= n \div BITS => BITS * BYTES <= BITS * (n \div BITS)
    BY <1>1, <1>2, MulMono
  <2>2. BITS * BYTES \in Nat /\ BITS * (n \div BITS) \in Nat /\ Samples = BITS * BYTES
    BY <1>1, <1>2 DEF Samples
  <2> QED
    BY <1>2, <2>1, <2>2
<1> QED
  BY <1>1, <1>2, <1>3

LEMMA ByteNumber ==
    ASSUME NEW n \in 0 .. Samples - 1
    PROVE  /\ n \div BITS + 1 \in 1 .. BYTES /\ n \div BITS \in Nat
           /\ n % BITS \in 0 .. BITS - 1
<1>1. n \div BITS \in 0 .. BYTES - 1 /\ n % BITS \in 0 .. BITS - 1
  BY Place
<1>2. BYTES \in Nat
  BY SweepAssumption
<1> DEFINE q == n \div BITS
<1> HIDE DEF q
<1>3. q \in 0 .. BYTES - 1 => q + 1 \in 1 .. BYTES /\ q \in Nat
  BY <1>2
<1> QED
  BY <1>1, <1>3 DEF q

LEMMA EarlierPlace ==
    ASSUME NEW n \in 0 .. Samples - 1, NEW j \in 0 .. n - 1
    PROVE  /\ j \in 0 .. Samples - 1
           /\ j \div BITS <= n \div BITS
           /\ j \div BITS = n \div BITS => n % BITS # 0 /\ j % BITS < n % BITS
<1>1. j \in 0 .. Samples - 1 /\ BITS \in Nat \ {0}
  BY SweepAssumption DEF Samples
<1>2. /\ j \div BITS \in Nat /\ j % BITS \in 0 .. BITS - 1
      /\ j = BITS * (j \div BITS) + (j % BITS)
  BY <1>1, Place
<1>3. /\ n \div BITS \in Nat /\ n % BITS \in 0 .. BITS - 1
      /\ n = BITS * (n \div BITS) + (n % BITS)
  BY Place
<1>4. ~(n \div BITS < j \div BITS)
  <2>1. SUFFICES ASSUME n \div BITS < j \div BITS PROVE FALSE
    OBVIOUS
  <2>2. BITS * (n \div BITS + 1) <= BITS * (j \div BITS)
    BY <1>1, <1>2, <1>3, <2>1, MulMono
  <2>3. BITS * (n \div BITS + 1) = BITS * (n \div BITS) + BITS
    BY <1>1, <1>3
  <2>4. BITS * (n \div BITS) \in Nat /\ BITS * (j \div BITS) \in Nat
    BY <1>1, <1>2, <1>3
  <2> QED
    BY <1>1, <1>2, <1>3, <2>2, <2>3, <2>4
<1>5. j \div BITS = n \div BITS => n % BITS # 0 /\ j % BITS < n % BITS
  <2>1. BITS * (n \div BITS) \in Nat
    BY <1>1, <1>3
  <2> QED
    BY <1>2, <1>3, <2>1
<1> QED
  BY <1>1, <1>2, <1>3, <1>4, <1>5

\* Behind the last bit of a byte the next byte begins.
LEMMA NextPlace ==
    ASSUME NEW n \in 0 .. Samples - 1, (n + 1) % BITS # 0
    PROVE  (n + 1) \div BITS = n \div BITS /\ (n + 1) % BITS = (n % BITS) + 1
<1> DEFINE q == n \div BITS
           r == n % BITS
<1>1. BITS \in Nat \ {0} /\ n + 1 \in Nat
  BY SweepAssumption
<1>2. q \in Nat /\ r \in 0 .. BITS - 1 /\ n = BITS * q + r
  BY Place
<1>3. BITS * q \in Nat /\ BITS * (q + 1) = BITS * q + BITS
  BY <1>1, <1>2
<1> HIDE DEF q, r
<1>4. CASE r = BITS - 1
  <2>1. n + 1 = BITS * (q + 1) + 0 /\ q + 1 \in Nat /\ 0 \in 0 .. BITS - 1
    BY <1>1, <1>2, <1>3, <1>4
  <2>2. 0 = (n + 1) % BITS
    BY <1>1, <2>1, DivUnique
  <2> QED
    BY <2>2
<1>5. CASE r # BITS - 1
  <2>1. n + 1 = BITS * q + (r + 1) /\ r + 1 \in 0 .. BITS - 1
    BY <1>1, <1>2, <1>3, <1>5
  <2>2. q = (n + 1) \div BITS /\ r + 1 = (n + 1) % BITS
    BY <1>1, <1>2, <2>1, DivUnique
  <2> QED
    BY <2>2 DEF q, r
<1> QED
  BY <1>4, <1>5

(***************************************************************************)
(* Packing and publishing                                                  *)
(***************************************************************************)

Buffers == [1 .. BYTES -> SUBSET (0 .. BITS - 1)]

\* The bits of the buffer are the levels of the samples s.
Encodes(buffer, s) ==
    \A k \in 1 .. Len(s) :
        ((k - 1) % BITS \in buffer[(k - 1) \div BITS + 1]) <=> (s[k][1] = 1)

\* The byte that sample number n goes to has no bits yet but those of earlier
\* samples, unless n is its first.
Clean(buffer, n) ==
    n % BITS # 0 => \A x \in buffer[n \div BITS + 1] : x < n % BITS

LEMMA RecordedType ==
    ASSUME m_sampleMessage \in Buffers, m_sampleCount \in 0 .. Samples - 1, NEW b \in Levels
    PROVE  Recorded(b) \in Buffers
<1>1. m_sampleCount \div BITS + 1 \in 1 .. BYTES /\ m_sampleCount % BITS \in 0 .. BITS - 1
  BY ByteNumber
<1> QED
  BY <1>1 DEF Recorded, Buffers

LEMMA RecordedEncodes ==
    ASSUME m_sampleMessage \in Buffers, m_sampleCount \in 0 .. Samples - 1, NEW b \in Levels,
           NEW s \in Seq(Sample), NEW e \in Sample, e[1] = b, m_sampleCount = Len(s),
           Encodes(m_sampleMessage, s), Clean(m_sampleMessage, m_sampleCount)
    PROVE  Encodes(Recorded(b), Append(s, e))
<1> DEFINE n == m_sampleCount
           t == Append(s, e)
           old == m_sampleMessage
           new == Recorded(b)
<1>1. n \div BITS + 1 \in 1 .. BYTES /\ n \div BITS \in Nat /\ n % BITS \in 0 .. BITS - 1
  BY ByteNumber
<1>0. n \in Nat /\ n = Len(s)
  BY SweepAssumption DEF Samples
<1>2. /\ Len(t) = n + 1 /\ t[n + 1] = e
      /\ \A k \in 1 .. n : t[k] = s[k]
  BY <1>0
<1>3. /\ \A j \in 1 .. BYTES : j # n \div BITS + 1 => new[j] = old[j]
      /\ new[n \div BITS + 1] =
             (IF n % BITS = 0 THEN {} ELSE old[n \div BITS + 1])
                 \cup (IF b = 1 THEN {n % BITS} ELSE {})
  BY <1>1 DEF Recorded, Buffers
<1>4. (n % BITS \in new[n \div BITS + 1]) <=> (b = 1)
  <2>1. n % BITS # 0 => n % BITS \notin old[n \div BITS + 1]
    BY <1>1 DEF Clean
  <2> QED
    BY <1>3, <2>1
<1>5. ASSUME NEW k \in 1 .. n
      PROVE  ((k - 1) % BITS \in new[(k - 1) \div BITS + 1]) <=> (t[k][1] = 1)
  <2>1. k - 1 \in 0 .. n - 1
    BY <1>0
  <2>2. /\ k - 1 \in 0 .. Samples - 1
        /\ (k - 1) \div BITS = n \div BITS => n % BITS # 0 /\ (k - 1) % BITS < n % BITS
    BY <2>1, EarlierPlace
  <2>3. (k - 1) \div BITS + 1 \in 1 .. BYTES /\ (k - 1) \div BITS \in Nat
        /\ (k - 1) % BITS \in 0 .. BITS - 1
    BY <2>2, ByteNumber
  <2>4. ((k - 1) % BITS \in old[(k - 1) \div BITS + 1]) <=> (s[k][1] = 1)
    BY DEF Encodes
  <2>5. CASE (k - 1) \div BITS = n \div BITS
    <3>1. (k - 1) % BITS # n % BITS /\ n % BITS # 0
      BY <1>1, <2>2, <2>3, <2>5
    <3>2. ((k - 1) % BITS \in new[n \div BITS + 1])
              <=> ((k - 1) % BITS \in old[n \div BITS + 1])
      BY <1>3, <3>1
    <3> QED
      BY <1>2, <2>4, <2>5, <3>2
  <2>6. CASE (k - 1) \div BITS # n \div BITS
    <3>1. new[(k - 1) \div BITS + 1] = old[(k - 1) \div BITS + 1]
      BY <1>1, <1>3, <2>3, <2>6
    <3> QED
      BY <1>2, <2>4, <3>1
  <2> QED
    BY <2>5, <2>6
<1>6. ((n + 1 - 1) % BITS \in new[(n + 1 - 1) \div BITS + 1]) <=> (t[n + 1][1] = 1)
  <2>1. n + 1 - 1 = n
    BY <1>0
  <2> QED
    BY <1>2, <1>4, <2>1
<1>7. \A k \in 1 .. n + 1 : k \in 1 .. n \/ k = n + 1
  BY <1>0
<1> DEFINE Right(k) == ((k - 1) % BITS \in new[(k - 1) \div BITS + 1]) <=> (t[k][1] = 1)
<1>8. (\A k \in 1 .. n : Right(k)) /\ Right(n + 1)
  BY <1>5, <1>6
<1>9. ASSUME NEW k \in 1 .. Len(t)
      PROVE  Right(k)
  <2> HIDE DEF Right, t, n
  <2> QED
    BY <1>2, <1>7, <1>8
<1> QED
  BY <1>9 DEF Encodes

LEMMA RecordedClean ==
    ASSUME m_sampleMessage \in Buffers, m_sampleCount \in 0 .. Samples - 1, NEW b \in Levels,
           Clean(m_sampleMessage, m_sampleCount)
    PROVE  Clean(Recorded(b), m_sampleCount + 1)
<1> DEFINE n == m_sampleCount
           old == m_sampleMessage
           new == Recorded(b)
<1>1. SUFFICES ASSUME (n + 1) % BITS # 0
               PROVE  \A x \in new[(n + 1) \div BITS + 1] : x < (n + 1) % BITS
  BY DEF Clean
<1>2. (n + 1) \div BITS = n \div BITS /\ (n + 1) % BITS = (n % BITS) + 1
  BY <1>1, NextPlace
<1>3. n \div BITS + 1 \in 1 .. BYTES /\ n % BITS \in 0 .. BITS - 1
  BY ByteNumber
<1>4. new[n \div BITS + 1] =
          (IF n % BITS = 0 THEN {} ELSE old[n \div BITS + 1])
              \cup (IF b = 1 THEN {n % BITS} ELSE {})
  BY <1>3 DEF Recorded, Buffers
<1>5. old[n \div BITS + 1] \subseteq Nat
  BY <1>3 DEF Buffers
<1>6. n % BITS # 0 => \A x \in old[n \div BITS + 1] : x < n % BITS
  BY DEF Clean
<1>7. \A x \in new[n \div BITS + 1] : x < (n % BITS) + 1
  BY <1>3, <1>4, <1>5, <1>6
<1> QED
  BY <1>2, <1>7

\* A buffer that holds the samples of one sweep is published as such: every byte
\* that holds one is sent, and no other.
LEMMA PublishedRight ==
    ASSUME NEW buffer \in Buffers, NEW s \in Seq(Sample), Len(s) \in 1 .. Samples,
           Encodes(buffer, s), \A k \in 1 .. Len(s) : s[k][2] = s[1][2],
           Publish(Len(s), buffer, s)
    PROVE  BatchesAreSamples'
<1> DEFINE n == Len(s)
           q == (n - 1) \div BITS
           msg == published'
<1>1. BITS \in Nat \ {0} /\ BYTES \in Nat /\ n \in Nat /\ n >= 1
  BY SweepAssumption
<1>2. n - 1 \in 0 .. Samples - 1
  BY SweepAssumption DEF Samples
<1>3. q + 1 \in 1 .. BYTES /\ q \in Nat /\ BITS * q <= n - 1 /\ n <= BITS * (q + 1)
  <2>1. q + 1 \in 1 .. BYTES /\ q \in Nat /\ (n - 1) % BITS \in 0 .. BITS - 1
    BY <1>2, ByteNumber
  <2>2. n - 1 = BITS * q + ((n - 1) % BITS)
    BY <1>2, Place
  <2> DEFINE r == (n - 1) % BITS
  <2> HIDE DEF q, n, r
  <2>3. BITS * q \in Nat /\ BITS * (q + 1) = BITS * q + BITS
    BY <1>1, <2>1 DEF r
  <2>4. r \in 0 .. BITS - 1 /\ n - 1 = BITS * q + r
    BY <2>1, <2>2 DEF r
  <2> DEFINE low == BITS * q
             high == BITS * (q + 1)
  <2>5. low \in Nat /\ high = low + BITS /\ n - 1 = low + r
    BY <2>3, <2>4
  <2> HIDE DEF low, high
  <2>6. low <= n - 1 /\ n <= high
    BY <1>1, <2>4, <2>5
  <2> QED
    BY <2>1, <2>6 DEF low, high
<1>4. /\ msg.length = 5 + q /\ msg.count = n
      /\ msg.bytes = SubSeq(buffer, 1, q + 1)
      /\ batch' = s
  <2> DEFINE len == MessageLength(n)
  <2>1. len = 5 + q /\ len - 4 = q + 1
    BY <1>3 DEF MessageLength
  <2>2. /\ published' = [length |-> len, count |-> n,
                         bytes |-> SubSeq(buffer, 1, len - 4)]
        /\ batch' = s
    BY DEF Publish
  <2> HIDE DEF n, q, len
  <2> QED
    BY <2>1, <2>2
<1>5. \A j \in 1 .. q + 1 : msg.bytes[j] = buffer[j]
  <2> HIDE DEF q, msg
  <2>1. buffer \in Seq(SUBSET (0 .. BITS - 1)) /\ Len(buffer) = BYTES
    BY <1>1 DEF Buffers
  <2> QED
    BY <1>1, <1>3, <1>4, <2>1
<1>6. ASSUME NEW k \in 1 .. n
      PROVE  (IF (k - 1) % BITS \in msg.bytes[(k - 1) \div BITS + 1] THEN 1 ELSE 0) = s[k][1]
  <2>1. (k - 1) \div BITS + 1 \in 1 .. q + 1
    <3>1. k = n \/ k - 1 \in 0 .. n - 1 - 1
      BY <1>1
    <3>2. k - 1 \in 0 .. Samples - 1
      BY <1>2, <1>1, <3>1, EarlierPlace
    <3>3. (k - 1) \div BITS \in Nat
      BY <3>2, ByteNumber
    <3>4. (k - 1) \div BITS <= q
      BY <1>2, <1>3, <3>1, EarlierPlace
    <3> QED
      BY <1>3, <3>3, <3>4
  <2>2. msg.bytes[(k - 1) \div BITS + 1] = buffer[(k - 1) \div BITS + 1]
    BY <1>5, <2>1
  <2>3. s[k] \in Sample
    BY <1>1
  <2>4. s[k][1] = 0 \/ s[k][1] = 1
    BY <2>3 DEF Sample, Levels
  <2>5. ((k - 1) % BITS \in buffer[(k - 1) \div BITS + 1]) <=> (s[k][1] = 1)
    BY DEF Encodes
  <2> QED
    BY <2>2, <2>4, <2>5
<1>7. Decoded(msg) = [k \in DOMAIN s |-> s[k][1]]
  <2>1. ~(msg.length <= 4 \/ msg.count > BITS * (msg.length - 4))
    <3>1. 5 + q - 4 = q + 1 /\ BITS * (q + 1) \in Nat
      BY <1>1, <1>3
    <3> HIDE DEF msg, q, n
    <3> QED
      BY <1>1, <1>3, <1>4, <3>1
  <2>2. Decoded(msg) =
            [k \in 1 .. n |->
                IF (k - 1) % BITS \in msg.bytes[(k - 1) \div BITS + 1] THEN 1 ELSE 0]
    BY <1>4, <2>1 DEF Decoded
  <2>3. DOMAIN s = 1 .. n
    OBVIOUS
  <2> HIDE DEF msg, n
  <2> QED
    BY <1>6, <2>2, <2>3
<1>8. BITS * (msg.length - 5) < msg.count
  <2> HIDE DEF msg, q, n
  <2>1. 5 + q - 5 = q /\ BITS * q \in Nat
    BY <1>1, <1>3
  <2> QED
    BY <1>1, <1>3, <1>4, <2>1
<1>9. \A k \in DOMAIN batch' : batch'[k][2] = batch'[1][2]
  BY <1>4
<1> QED
  BY <1>4, <1>7, <1>8, <1>9 DEF BatchesAreSamples, Decoded

(***************************************************************************)
(* The invariant                                                           *)
(***************************************************************************)

\* The servo is where the state of the sweep has it.
Sides ==
    /\ m_state = "SEEKING_MIDPOINT" => m_targetMicros = INITIAL_MIDPOINT
    /\ m_state = "SEEKING_LEFT" => m_targetMicros <= INITIAL_MIDPOINT
    /\ m_state = "SEEKING_RIGHT" => m_targetMicros >= INITIAL_MIDPOINT

\* What is in the buffer are the samples of this sweep since the last message, in
\* a sweep that is under way; else there are none.
Gathered ==
    /\ m_sampleCount = Len(taken)
    /\ \A k \in 1 .. Len(taken) : taken[k][2] = m_state
    /\ Encodes(m_sampleMessage, taken)
    /\ Clean(m_sampleMessage, m_sampleCount)
    /\ m_enabled => Sweeping /\ m_targetMicros # INITIAL_MIDPOINT
    /\ ~m_enabled => m_sampleCount = 0

SentryInv == TypeOK /\ Sides /\ (loaded => Gathered)

LEMMA EmptyIsClean ==
    ASSUME NEW buffer \in Buffers
    PROVE  Encodes(buffer, <<>>) /\ Clean(buffer, 0)
<1>1. BITS \in Nat \ {0} /\ 0 = BITS * 0 + 0 /\ 0 \in 0 .. BITS - 1
  BY SweepAssumption
<1>2. 0 = 0 % BITS
  BY <1>1, DivUnique
<1>3. Len(<<>>) = 0
  OBVIOUS
<1> QED
  BY <1>2, <1>3 DEF Encodes, Clean

LEMMA EmptySeq ==
    ASSUME NEW s \in Seq(Sample), Len(s) = 0
    PROVE  s = <<>>
OBVIOUS

LEMMA WrapType ==
    ASSUME NEW t \in Nat
    PROVE  Wrap(t) \in 0 .. ULONG_MAX
<1> DEFINE modulus == ULONG_MAX + 1
<1>1. modulus \in Nat \ {0} /\ modulus - 1 = ULONG_MAX
  BY ClockAssumption
<1> HIDE DEF modulus
<1>2. t % modulus \in 0 .. modulus - 1
  BY <1>1, DivMod
<1> QED
  BY <1>1, <1>2 DEF Wrap, modulus

\* The clock keeps to its range whatever happens.
LEMMA ClockKept ==
    ASSUME ClockTypeOK, Poll \/ Skip \/ Tick \/ UNCHANGED clock
    PROVE  ClockTypeOK'
<1>1. /\ {ULONG_MAX, Resolution, Interval, MaxGap} \subseteq Nat
      /\ {micros, lastMicrosValue, encoderDelay} \subseteq 0 .. ULONG_MAX
      /\ encoderWrapped \in BOOLEAN /\ gap \in 0 .. MaxGap
  BY ClockAssumption DEF ClockTypeOK
<1>2. CASE Poll
  <2>1. Wrap(micros + Interval) \in 0 .. ULONG_MAX
    <3>1. micros + Interval \in Nat
      BY <1>1
    <3> QED
      BY <3>1, WrapType
  <2>2. lastMicrosValue' = micros /\ micros' = micros /\ gap' = 0
    BY <1>2 DEF Poll
  <2>3. encoderDelay' \in 0 .. ULONG_MAX /\ encoderWrapped' \in BOOLEAN
    <3>1. \/ /\ encoderDelay' = Wrap(micros + Interval)
             /\ encoderWrapped' = (micros >= ULONG_MAX - Interval)
          \/ encoderDelay' = encoderDelay /\ encoderWrapped' = encoderWrapped
      BY <1>2 DEF Poll
    <3>2. encoderDelay' \in 0 .. ULONG_MAX
      BY <1>1, <2>1, <3>1
    <3>3. (micros >= ULONG_MAX - Interval) \in BOOLEAN
      OBVIOUS
    <3>4. encoderWrapped' \in BOOLEAN
      BY <1>1, <3>1, <3>3, Zenon
    <3> QED
      BY <3>2, <3>4
  <2> QED
    BY <1>1, <2>2, <2>3 DEF ClockTypeOK
<1>3. CASE Skip
  BY <1>1, <1>3 DEF Skip, ClockTypeOK
<1>4. CASE Tick
  <2>1. Wrap(micros + Resolution) \in 0 .. ULONG_MAX
    <3>1. micros + Resolution \in Nat
      BY <1>1
    <3> QED
      BY <3>1, WrapType
  <2> QED
    BY <1>1, <1>4, <2>1 DEF Tick, ClockTypeOK
<1>5. CASE UNCHANGED clock
  BY <1>5 DEF clock, ClockTypeOK
<1> QED
  BY <1>2, <1>3, <1>4, <1>5

(***************************************************************************)
(* What the Encoder does                                                   *)
(***************************************************************************)

\* The variables of the Encoder and its line have their types.
EncoderTypes ==
    /\ level \in Levels
    /\ m_sampleCount \in 0 .. Samples - 1
    /\ m_sampleMessage \in Buffers
    /\ taken \in Seq(Sample) /\ batch \in Seq(Sample)

LEMMA EncoderTyped ==
    ASSUME TypeOK
    PROVE  EncoderTypes /\ Samples \in Nat /\ Samples >= 1
<1>1. EncoderTypes
  BY DEF TypeOK, EncoderTypes, Buffers
<1>2. BITS \in Nat \ {0} /\ BYTES \in Nat \ {0}
  BY SweepAssumption
<1>3. m_sampleCount \in 0 .. Samples - 1 /\ Samples \in Nat
  BY <1>1, <1>2 DEF EncoderTypes, Samples
<1> QED
  BY <1>1, <1>3

\* Update() adds a sample to what is gathered, or publishes it all.
LEMMA UpdateRight ==
    ASSUME TypeOK, Gathered, m_enabled, Update, UNCHANGED <<m_state, m_targetMicros>>
    PROVE  EncoderTypes' /\ Gathered' /\ BatchesAreSamples'
<1> DEFINE e == <<level', m_state>>
           s == Append(taken, e)
<1>1. EncoderTypes /\ Samples \in Nat /\ Samples >= 1
  BY EncoderTyped
<1>2. level' \in Levels /\ m_sampleMessage' = Recorded(level')
  BY DEF Update, TypeOK
<1>3. Sweeping /\ m_targetMicros # INITIAL_MIDPOINT
  BY DEF Gathered
<1>4. e \in Sample /\ e[1] = level' /\ e[2] = m_state
  BY <1>2, <1>3 DEF Sample, Sweeping
<1>5. /\ s \in Seq(Sample) /\ Len(s) = m_sampleCount + 1
      /\ \A k \in 1 .. Len(s) : s[k][2] = m_state
  <2>1. taken \in Seq(Sample) /\ Len(taken) = m_sampleCount /\ m_sampleCount \in Nat
    BY <1>1 DEF EncoderTypes, Gathered
  <2>2. \A k \in 1 .. Len(taken) : taken[k][2] = m_state
    BY DEF Gathered
  <2> HIDE DEF e
  <2>3. s \in Seq(Sample) /\ Len(s) = Len(taken) + 1 /\ s[Len(taken) + 1] = e
        /\ \A k \in 1 .. Len(taken) : s[k] = taken[k]
    BY <1>4, <2>1
  <2>4. \A k \in 1 .. Len(taken) + 1 : k \in 1 .. Len(taken) \/ k = Len(taken) + 1
    BY <2>1
  <2> HIDE DEF s
  <2> QED
    BY <1>4, <2>1, <2>2, <2>3, <2>4
<1>6. m_sampleMessage' \in Buffers
  BY <1>1, <1>2, RecordedType DEF EncoderTypes
<1>7. Encodes(m_sampleMessage', s)
  BY <1>1, <1>2, <1>4, RecordedEncodes DEF EncoderTypes, Gathered
<1>8. Clean(m_sampleMessage', m_sampleCount + 1)
  BY <1>1, <1>2, RecordedClean DEF EncoderTypes, Gathered
<1>9. m_enabled' = m_enabled
  BY DEF Update
<1>10. CASE m_sampleCount + 1 = Samples
  <2>1. Publish(m_sampleCount + 1, m_sampleMessage', s)
    BY <1>10 DEF Update
  <2> HIDE DEF s, e
  <2>2. Len(s) \in 1 .. Samples /\ Publish(Len(s), m_sampleMessage', s)
    BY <1>1, <1>5, <1>10, <2>1
  <2>3. 1 \in 1 .. Len(s)
    BY <1>1, <2>2
  <2>4. \A k \in 1 .. Len(s) : s[k][2] = s[1][2]
    BY <1>5, <2>3
  <2>5. BatchesAreSamples'
    BY <1>5, <1>6, <1>7, <2>2, <2>4, PublishedRight
  <2>6. m_sampleCount' = 0 /\ taken' = <<>> /\ batch' = s
    BY <2>1 DEF Publish
  <2>7. Encodes(m_sampleMessage', <<>>) /\ Clean(m_sampleMessage', 0)
    BY <1>6, EmptyIsClean
  <2>8. EncoderTypes'
    BY <1>1, <1>2, <1>5, <1>6, <2>6 DEF EncoderTypes
  <2>9. Gathered'
    BY <1>3, <1>9, <2>6, <2>7 DEF Gathered, Sweeping
  <2> QED
    BY <2>5, <2>8, <2>9
<1>11. CASE m_sampleCount + 1 # Samples
  <2>1. /\ m_sampleCount' = m_sampleCount + 1 /\ taken' = s
        /\ published' = None /\ batch' = batch
    BY <1>11 DEF Update
  <2> HIDE DEF s, e
  <2>2. EncoderTypes'
    BY <1>1, <1>2, <1>5, <1>6, <1>11, <2>1 DEF EncoderTypes
  <2>3. Gathered'
    BY <1>3, <1>5, <1>7, <1>8, <1>9, <2>1 DEF Gathered, Sweeping
  <2> QED
    BY <2>1, <2>2, <2>3 DEF BatchesAreSamples
<1> QED
  BY <1>10, <1>11

\* Disable() publishes what is gathered and leaves nothing.
LEMMA DisableRight ==
    ASSUME TypeOK, Gathered, Disable
    PROVE  /\ EncoderTypes' /\ BatchesAreSamples'
           /\ m_enabled' = FALSE /\ m_sampleCount' = 0 /\ taken' = <<>>
           /\ m_sampleMessage' = m_sampleMessage
<1>1. EncoderTypes /\ Samples \in Nat /\ Samples >= 1
  BY EncoderTyped
<1>2. /\ m_enabled' = FALSE /\ level' = level /\ m_sampleMessage' = m_sampleMessage
  BY DEF Disable
<1>3. taken \in Seq(Sample) /\ Len(taken) = m_sampleCount /\ m_sampleCount \in 0 .. Samples - 1
  BY <1>1 DEF EncoderTypes, Gathered
<1>4. CASE m_enabled /\ m_sampleCount > 0
  <2>1. Publish(Len(taken), m_sampleMessage, taken)
    BY <1>3, <1>4 DEF Disable
  <2>2. Len(taken) \in 1 .. Samples /\ 1 \in 1 .. Len(taken)
    BY <1>1, <1>3, <1>4
  <2>3. \A k \in 1 .. Len(taken) : taken[k][2] = taken[1][2]
    BY <2>2 DEF Gathered
  <2>4. m_sampleMessage \in Buffers /\ Encodes(m_sampleMessage, taken)
    BY <1>1 DEF EncoderTypes, Gathered
  <2>5. BatchesAreSamples'
    BY <1>3, <2>1, <2>2, <2>3, <2>4, PublishedRight
  <2>6. m_sampleCount' = 0 /\ taken' = <<>> /\ batch' = taken
    BY <2>1 DEF Publish
  <2>7. EncoderTypes'
    BY <1>1, <1>2, <2>6 DEF EncoderTypes
  <2> QED
    BY <1>2, <2>5, <2>6, <2>7
<1>5. CASE ~(m_enabled /\ m_sampleCount > 0)
  <2>1. m_sampleCount = 0
    BY <1>1, <1>3, <1>5 DEF Gathered
  <2>2. taken = <<>>
    BY <1>3, <2>1, EmptySeq
  <2>3. published' = None /\ UNCHANGED <<m_sampleCount, taken, batch>>
    BY <1>5 DEF Disable
  <2>4. EncoderTypes'
    BY <1>1, <1>2, <2>3 DEF EncoderTypes
  <2> QED
    BY <1>2, <2>1, <2>2, <2>3, <2>4 DEF BatchesAreSamples
<1> QED
  BY <1>4, <1>5

(***************************************************************************)
(* What each action does to the invariant                                  *)
(***************************************************************************)

\* The variables of the sweep, and the pin, have their types.
SweepTypes ==
    /\ loaded \in BOOLEAN
    /\ m_state \in {"SEEKING_MIDPOINT", "SEEKING_LEFT", "SEEKING_RIGHT", "FINISHED"}
    /\ m_targetMicros \in LEFT .. RIGHT
    /\ pin \in Levels

LEMMA TypeParts ==
    /\ TypeOK <=> ClockTypeOK /\ SweepTypes /\ m_enabled \in BOOLEAN /\ EncoderTypes
    /\ TypeOK' <=> ClockTypeOK' /\ SweepTypes' /\ m_enabled' \in BOOLEAN /\ EncoderTypes'
BY DEF TypeOK, SweepTypes, EncoderTypes, Buffers

LEMMA Limits ==
    /\ INITIAL_MIDPOINT \in LEFT .. RIGHT
    /\ {INITIAL_MIDPOINT, NOMINAL_uS_PER_TICK, LEFT, RIGHT} \subseteq Nat \ {0}
BY SweepAssumption

LEMMA MidpointKeeps ==
    ASSUME SentryInv, loaded, StepMidpoint, UNCHANGED <<loaded, clock, pin>>
    PROVE  SentryInv' /\ BatchesAreSamples'
<1>1. /\ m_state = "SEEKING_MIDPOINT" /\ m_state' = "SEEKING_LEFT" /\ published' = None
      /\ UNCHANGED <<loaded, pin, m_targetMicros, m_enabled, level, m_sampleCount>>
      /\ UNCHANGED <<m_sampleMessage, taken, batch>>
  BY DEF StepMidpoint, encoder
<1>2. ClockTypeOK'
  BY ClockKept, TypeParts DEF SentryInv
<1>3. SweepTypes' /\ m_enabled' \in BOOLEAN /\ EncoderTypes'
  BY <1>1, TypeParts DEF SentryInv, SweepTypes, EncoderTypes
<1>4. Sides'
  BY <1>1, Limits DEF SentryInv, Sides
<1>5. ~m_enabled /\ m_sampleCount = 0
  BY <1>1 DEF SentryInv, Gathered, Sweeping
<1>6. Len(taken) = 0
  BY <1>5 DEF SentryInv, Gathered
<1>7. Gathered'
  BY <1>1, <1>5, <1>6 DEF SentryInv, Gathered, Encodes, Clean
<1> QED
  BY <1>1, <1>2, <1>3, <1>4, <1>7, TypeParts DEF SentryInv, BatchesAreSamples

LEMMA ReturnKeeps ==
    ASSUME SentryInv, loaded, StepReturn, UNCHANGED <<loaded, clock, pin>>
    PROVE  SentryInv' /\ BatchesAreSamples'
<1>1. /\ m_targetMicros' = INITIAL_MIDPOINT /\ Disable
      /\ m_state' \in {"SEEKING_RIGHT", "FINISHED"}
  BY DEF StepReturn
<1>2. /\ EncoderTypes' /\ BatchesAreSamples'
      /\ m_enabled' = FALSE /\ m_sampleCount' = 0 /\ taken' = <<>>
      /\ m_sampleMessage' = m_sampleMessage
  BY <1>1, DisableRight DEF SentryInv
<1>3. ClockTypeOK'
  BY ClockKept, TypeParts DEF SentryInv
<1>4. SweepTypes' /\ Sides'
  BY <1>1, Limits, TypeParts DEF SentryInv, SweepTypes, Sides
<1>5. Encodes(m_sampleMessage, <<>>) /\ Clean(m_sampleMessage, 0)
  BY EmptyIsClean, TypeParts DEF SentryInv, EncoderTypes
<1>6. Gathered'
  BY <1>2, <1>5 DEF Gathered
<1> QED
  BY <1>2, <1>3, <1>4, <1>6, TypeParts DEF SentryInv

LEMMA MoveKeeps ==
    ASSUME SentryInv, loaded, StepMove, UNCHANGED <<loaded, clock, pin>>
    PROVE  SentryInv' /\ BatchesAreSamples'
<1>1. /\ m_state' = m_state /\ loaded' = loaded /\ pin' = pin
      /\ m_state \in {"SEEKING_LEFT", "SEEKING_RIGHT"}
      /\ m_targetMicros' = IF m_state = "SEEKING_LEFT"
                           THEN m_targetMicros - NOMINAL_uS_PER_TICK
                           ELSE m_targetMicros + NOMINAL_uS_PER_TICK
      /\ ~(m_targetMicros - NOMINAL_uS_PER_TICK < LEFT)
      /\ ~(m_targetMicros + NOMINAL_uS_PER_TICK > RIGHT)
  BY DEF StepMove, Sweeping, AtLimit
<1>2. /\ m_targetMicros \in LEFT .. RIGHT /\ Sides /\ Gathered
      /\ SweepTypes /\ EncoderTypes /\ m_enabled \in BOOLEAN /\ ClockTypeOK
  BY TypeParts DEF SentryInv, SweepTypes
<1>3. ClockTypeOK'
  BY <1>2, ClockKept
<1>4. m_targetMicros' \in LEFT .. RIGHT /\ m_targetMicros' # INITIAL_MIDPOINT /\ Sides'
  BY <1>1, <1>2, Limits DEF Sides
<1>5. SweepTypes'
  BY <1>1, <1>2, <1>4 DEF SweepTypes
<1>6. CASE m_targetMicros = INITIAL_MIDPOINT
  <2>1. /\ m_enabled' = TRUE /\ level' = pin /\ m_sampleCount' = 0 /\ published' = None
        /\ UNCHANGED <<m_sampleMessage, taken, batch>>
    BY <1>6 DEF StepMove, Start
  <2>2. EncoderTypes'
    BY <1>2, <2>1, EncoderTyped DEF EncoderTypes, SweepTypes, SentryInv
  <2>3. ~m_enabled /\ m_sampleCount = 0
    BY <1>2, <1>6 DEF Gathered
  <2>4. Gathered'
    BY <1>1, <1>2, <1>4, <2>1, <2>3 DEF Gathered, Sweeping
  <2> QED
    BY <1>3, <1>4, <1>5, <2>1, <2>2, <2>4, TypeParts DEF SentryInv, BatchesAreSamples
<1>7. CASE m_targetMicros # INITIAL_MIDPOINT
  <2>1. /\ published' = None
        /\ UNCHANGED <<m_enabled, level, m_sampleCount, m_sampleMessage, taken, batch>>
    BY <1>7 DEF StepMove, encoder
  <2>2. EncoderTypes'
    BY <1>2, <2>1 DEF EncoderTypes
  <2>3. Gathered'
    BY <1>1, <1>2, <1>4, <2>1 DEF Gathered, Sweeping
  <2> QED
    BY <1>2, <1>3, <1>4, <1>5, <2>1, <2>2, <2>3, TypeParts DEF SentryInv, BatchesAreSamples
<1> QED
  BY <1>6, <1>7

LEMMA StepKeeps ==
    ASSUME SentryInv, Step
    PROVE  SentryInv' /\ BatchesAreSamples'
BY MidpointKeeps, ReturnKeeps, MoveKeeps DEF Step

LEMMA PollKeeps ==
    ASSUME SentryInv, BatchesAreSamples, PollEncoder
    PROVE  SentryInv' /\ BatchesAreSamples'
<1>1. UNCHANGED <<loaded, m_state, m_targetMicros, pin>> /\ (Poll \/ Skip)
  BY DEF PollEncoder, sweep
<1>2. /\ SweepTypes /\ EncoderTypes /\ m_enabled \in BOOLEAN /\ ClockTypeOK
      /\ TypeOK /\ Sides /\ (loaded => Gathered)
  BY TypeParts DEF SentryInv
<1>3. ClockTypeOK'
  BY <1>1, <1>2, ClockKept
<1>4. SweepTypes' /\ Sides'
  BY <1>1, <1>2 DEF SweepTypes, Sides
<1>5. CASE loaded /\ m_enabled /\ Update
  <2>1. EncoderTypes' /\ Gathered' /\ BatchesAreSamples'
    BY <1>1, <1>2, <1>5, UpdateRight
  <2>2. m_enabled' \in BOOLEAN
    BY <1>2, <1>5 DEF Update
  <2> QED
    BY <1>3, <1>4, <2>1, <2>2, TypeParts DEF SentryInv
<1>6. CASE published' = None /\ UNCHANGED <<encoder, taken, batch>>
  <2>1. /\ published' = None
        /\ UNCHANGED <<m_enabled, level, m_sampleCount, m_sampleMessage, taken, batch>>
    BY <1>6 DEF encoder
  <2>2. EncoderTypes' /\ m_enabled' \in BOOLEAN
    BY <1>2, <2>1 DEF EncoderTypes
  <2>3. Gathered => Gathered'
    BY <1>1, <2>1 DEF Gathered, Sweeping
  <2> QED
    BY <1>1, <1>2, <1>3, <1>4, <2>1, <2>2, <2>3, TypeParts DEF SentryInv, BatchesAreSamples
<1> QED
  BY <1>5, <1>6 DEF PollEncoder

LEMMA CreateKeeps ==
    ASSUME SentryInv, Create
    PROVE  SentryInv' /\ BatchesAreSamples'
<1>1. /\ loaded' = TRUE /\ pin' = pin /\ UNCHANGED clock
      /\ m_state' = "SEEKING_MIDPOINT" /\ m_targetMicros' = INITIAL_MIDPOINT
      /\ m_enabled' = FALSE /\ level' = 0 /\ m_sampleCount' = 0
      /\ published' = None /\ taken' = <<>> /\ batch' = <<>>
  BY DEF Create, Constructed
<1>2. m_sampleMessage' \in Buffers
  <2>1. PICK garbage \in {{}, 0 .. BITS - 1} :
            m_sampleMessage' = [k \in 1 .. BYTES |-> garbage]
    BY DEF Create, Constructed
  <2> QED
    BY <2>1 DEF Buffers
<1>3. ClockTypeOK' /\ SweepTypes' /\ Sides'
  BY <1>1, ClockKept, Limits, TypeParts DEF SentryInv, SweepTypes, Sides
<1>4. EncoderTypes'
  BY <1>1, <1>2, EncoderTyped DEF SentryInv, EncoderTypes, Levels
<1>5. Gathered'
  <2>1. Encodes(m_sampleMessage', <<>>) /\ Clean(m_sampleMessage', 0)
    BY <1>2, EmptyIsClean
  <2> QED
    BY <1>1, <2>1 DEF Gathered
<1> QED
  BY <1>1, <1>3, <1>4, <1>5, TypeParts DEF SentryInv, BatchesAreSamples

LEMMA DestroyKeeps ==
    ASSUME SentryInv, Destroy
    PROVE  SentryInv' /\ BatchesAreSamples'
<1>1. /\ loaded' = FALSE /\ published' = None /\ taken' = <<>> /\ batch' = <<>>
      /\ UNCHANGED <<clock, pin, m_state, m_targetMicros>>
      /\ UNCHANGED <<m_enabled, level, m_sampleCount, m_sampleMessage>>
  BY DEF Destroy, encoder
<1>2. ClockTypeOK' /\ SweepTypes' /\ Sides'
  BY <1>1, ClockKept, TypeParts DEF SentryInv, SweepTypes, Sides
<1>3. EncoderTypes' /\ m_enabled' \in BOOLEAN
  BY <1>1, TypeParts DEF SentryInv, EncoderTypes
<1> QED
  BY <1>1, <1>2, <1>3, TypeParts DEF SentryInv, BatchesAreSamples

\* The pin, the clock, and a step of something else.
LEMMA OthersKeep ==
    ASSUME SentryInv, BatchesAreSamples,
           \/ TurnPin
           \/ Tick /\ UNCHANGED <<sweep, encoder, pin, line>>
           \/ UNCHANGED vars
    PROVE  SentryInv' /\ BatchesAreSamples'
<1>1. /\ UNCHANGED <<loaded, m_state, m_targetMicros, m_enabled, level, m_sampleCount>>
      /\ UNCHANGED <<m_sampleMessage, published, taken, batch>>
      /\ pin' \in {pin, 1 - pin}
      /\ Tick \/ UNCHANGED clock
  BY DEF TurnPin, vars, sweep, encoder, line
<1>2. ClockTypeOK' /\ SweepTypes' /\ Sides'
  BY <1>1, ClockKept, TypeParts DEF SentryInv, SweepTypes, Sides, Levels
<1>3. EncoderTypes' /\ m_enabled' \in BOOLEAN
  BY <1>1, TypeParts DEF SentryInv, EncoderTypes
<1>4. Gathered => Gathered'
  BY <1>1 DEF Gathered, Sweeping
<1>5. BatchesAreSamples'
  BY <1>1 DEF BatchesAreSamples
<1> QED
  BY <1>1, <1>2, <1>3, <1>4, <1>5, TypeParts DEF SentryInv

LEMMA InitKeeps == Init => SentryInv /\ BatchesAreSamples
<1> SUFFICES ASSUME Init PROVE SentryInv /\ BatchesAreSamples
  OBVIOUS
<1>1. ClockTypeOK
  <2>1. /\ micros = 0 /\ lastMicrosValue = 0 /\ encoderDelay = 0
        /\ encoderWrapped = FALSE /\ gap = 0
    BY DEF Init, ClockInit
  <2>2. 0 \in 0 .. ULONG_MAX /\ 0 \in 0 .. MaxGap
    BY ClockAssumption
  <2> QED
    BY <2>1, <2>2 DEF ClockTypeOK
<1>2. /\ loaded = FALSE /\ m_enabled = FALSE /\ published = None
      /\ m_state = "SEEKING_MIDPOINT" /\ m_targetMicros = INITIAL_MIDPOINT
      /\ level = 0 /\ pin = 0 /\ m_sampleCount = 0
      /\ m_sampleMessage = [k \in 1 .. BYTES |-> {}] /\ taken = <<>> /\ batch = <<>>
  BY DEF Init
<1>3. SweepTypes /\ Sides
  BY <1>2, Limits DEF SweepTypes, Sides, Levels
<1>4. BITS * BYTES \in Nat /\ BITS * BYTES >= 1
  <2>1. BITS \in Nat \ {0} /\ BYTES \in Nat \ {0}
    BY SweepAssumption
  <2> QED
    BY <2>1
<1>5. EncoderTypes
  BY <1>2, <1>4 DEF EncoderTypes, Samples, Buffers, Levels
<1> QED
  BY <1>1, <1>2, <1>3, <1>5, TypeParts DEF SentryInv, BatchesAreSamples

LEMMA Invariance == Spec => [](SentryInv /\ BatchesAreSamples)
<1>1. SentryInv /\ BatchesAreSamples /\ [Next]_vars => (SentryInv /\ BatchesAreSamples)'
  <2> SUFFICES ASSUME SentryInv, BatchesAreSamples, [Next]_vars
               PROVE  SentryInv' /\ BatchesAreSamples'
    OBVIOUS
  <2>1. CASE Step
    BY <2>1, StepKeeps
  <2>2. CASE PollEncoder
    BY <2>2, PollKeeps
  <2>3. CASE Create
    BY <2>3, CreateKeeps
  <2>4. CASE Destroy
    BY <2>4, DestroyKeeps
  <2>5. CASE \/ TurnPin
             \/ Tick /\ UNCHANGED <<sweep, encoder, pin, line>>
             \/ UNCHANGED vars
    BY <2>5, OthersKeep
  <2> QED
    BY <2>1, <2>2, <2>3, <2>4, <2>5 DEF Next
<1> QED
  BY <1>1, InitKeeps, PTL DEF Spec

(***************************************************************************)
(* Theorems                                                                *)
(***************************************************************************)

\* Whatever the host decodes from a message is what the encoder has sampled, in
\* its order and in one sweep, for messages of any size, buffers of any content
\* and samples taken at any time (Sentry.cpp:57-83, SentryMonitor.cpp:73-94).
THEOREM HostReadsTheSamples == Spec => []BatchesAreSamples
BY Invariance, PTL

\* A servo that is back in the middle has nothing left to publish, however far
\* it sweeps and wherever the sweep stops.
THEOREM ParkedIsEmpty == Spec => []NothingPendingWhenParked
<1>1. SentryInv => NothingPendingWhenParked
  <2> SUFFICES ASSUME SentryInv, loaded, m_targetMicros = INITIAL_MIDPOINT
               PROVE  ~m_enabled /\ m_sampleCount = 0 /\ taken = <<>>
    BY DEF NothingPendingWhenParked
  <2>1. ~m_enabled /\ m_sampleCount = 0 /\ Len(taken) = 0
    BY DEF SentryInv, Gathered
  <2>2. taken \in Seq(Sample)
    BY TypeParts DEF SentryInv, EncoderTypes
  <2> QED
    BY <2>1, <2>2, EmptySeq
<1> QED
  BY <1>1, Invariance, PTL

(***************************************************************************)
(* The deadline of the next sample                                         *)
(***************************************************************************)

\* All times of the encoder's clock are whole ticks.
Ticks(t) == \E n \in Nat : t = n * Resolution

LEMMA WrapExact ==
    ASSUME NEW t \in Nat
    PROVE  /\ t <= ULONG_MAX => Wrap(t) = t
           /\ ULONG_MAX < t /\ t <= 2 * ULONG_MAX + 1 => Wrap(t) = t - (ULONG_MAX + 1)
<1> DEFINE modulus == ULONG_MAX + 1
<1>1. modulus \in Nat \ {0} /\ modulus - 1 = ULONG_MAX /\ ULONG_MAX \in Nat
  BY ClockAssumption
<1>2. CASE t <= ULONG_MAX
  <2>1. t = modulus * 0 + t /\ t \in 0 .. modulus - 1
    BY <1>1, <1>2
  <2> HIDE DEF modulus
  <2>2. t = t % modulus
    BY <1>1, <2>1, DivUnique
  <2> QED
    BY <1>1, <1>2, <2>2 DEF Wrap, modulus
<1>3. CASE ULONG_MAX < t /\ t <= 2 * ULONG_MAX + 1
  <2> DEFINE r == t - modulus
  <2>1. t = modulus * 1 + r /\ r \in 0 .. modulus - 1
    BY <1>1, <1>3
  <2> HIDE DEF modulus, r
  <2>2. r = t % modulus
    BY <1>1, <2>1, DivUnique
  <2>3. r = t - (ULONG_MAX + 1)
    BY DEF r, modulus
  <2> QED
    BY <1>3, <2>2, <2>3, <1>1 DEF Wrap, modulus
<1>4. CASE 2 * ULONG_MAX + 1 < t
  BY <1>1, <1>4
<1> QED
  BY <1>1, <1>2, <1>3, <1>4

LEMMA ClockConstants ==
    /\ Resolution \in Nat \ {0} /\ Interval \in Nat /\ ULONG_MAX \in Nat
    /\ Interval < ULONG_MAX
    /\ Period \in Nat /\ Interval = Period * Resolution
    /\ Ticks(Interval) /\ Ticks(ULONG_MAX + 1)
<1>1. /\ Resolution \in Nat \ {0} /\ Interval \in Nat /\ ULONG_MAX \in Nat /\ MaxGap \in Nat
      /\ Interval % Resolution = 0 /\ (ULONG_MAX + 1) % Resolution = 0
      /\ Interval + Resolution * MaxGap < ULONG_MAX
  BY ClockAssumption
<1>2. ASSUME NEW t \in Nat, t % Resolution = 0
      PROVE  t \div Resolution \in Nat /\ t = (t \div Resolution) * Resolution
  <2> DEFINE q == t \div Resolution
  <2>1. q \in Nat /\ t = Resolution * q + 0
    BY <1>1, <1>2, DivMod
  <2> HIDE DEF q
  <2>2. t = q * Resolution
    BY <1>1, <2>1
  <2> QED
    BY <2>1, <2>2 DEF q
<1>3. Period \in Nat /\ Interval = Period * Resolution
  BY <1>1, <1>2 DEF Period
<1>4. Ticks(Interval) /\ Ticks(ULONG_MAX + 1)
  <2>1. ULONG_MAX + 1 \in Nat
    BY <1>1
  <2> QED
    BY <1>1, <1>2, <2>1 DEF Ticks
<1>5. Interval < ULONG_MAX
  <2>1. Resolution * MaxGap \in Nat
    BY <1>1
  <2> QED
    BY <1>1, <2>1
<1> QED
  BY <1>1, <1>3, <1>4, <1>5

LEMMA TicksSum ==
    ASSUME NEW a \in Nat, NEW b \in Nat, Ticks(a), Ticks(b)
    PROVE  Ticks(a + b) /\ (b <= a => Ticks(a - b))
<1>1. PICK m \in Nat : a = m * Resolution
  BY DEF Ticks
<1>2. PICK n \in Nat : b = n * Resolution
  BY DEF Ticks
<1>3. Resolution \in Nat \ {0}
  BY ClockConstants
<1>4. Ticks(a + b)
  <2>1. m + n \in Nat /\ a + b = (m + n) * Resolution
    BY <1>1, <1>2, <1>3
  <2> QED
    BY <2>1 DEF Ticks
<1>5. ASSUME b <= a PROVE Ticks(a - b)
  <2>1. CASE n <= m
    <3>1. m - n \in Nat /\ a - b = (m - n) * Resolution
      BY <1>1, <1>2, <1>3, <2>1
    <3> QED
      BY <3>1 DEF Ticks
  <2>2. CASE m < n
    <3>1. Resolution * (m + 1) <= Resolution * n /\ Resolution * (m + 1) = a + Resolution
      BY <1>1, <1>2, <1>3, <2>2, MulMono
    <3>2. Resolution * n = b
      BY <1>2, <1>3
    <3> QED
      BY <1>3, <1>5, <3>1, <3>2
  <2> QED
    BY <2>1, <2>2
<1> QED
  BY <1>4, <1>5

\* Adding to a time on the clock leaves it on the clock.
LEMMA TicksWrap ==
    ASSUME NEW a \in 0 .. ULONG_MAX, NEW b \in 0 .. ULONG_MAX, Ticks(a), Ticks(b)
    PROVE  /\ Wrap(a + b) \in 0 .. ULONG_MAX /\ Ticks(Wrap(a + b))
           /\ a + b <= ULONG_MAX => Wrap(a + b) = a + b
           /\ ULONG_MAX < a + b => Wrap(a + b) = a + b - (ULONG_MAX + 1)
<1>1. ULONG_MAX \in Nat /\ a + b \in Nat /\ ULONG_MAX + 1 \in Nat /\ a \in Nat /\ b \in Nat
  BY ClockConstants
<1>2. Ticks(a + b)
  BY <1>1, TicksSum
<1>3. ULONG_MAX + 1 <= a + b => Ticks(a + b - (ULONG_MAX + 1))
  BY <1>1, <1>2, TicksSum, ClockConstants
<1>4. /\ a + b <= ULONG_MAX => Wrap(a + b) = a + b
      /\ ULONG_MAX < a + b => Wrap(a + b) = a + b - (ULONG_MAX + 1)
  BY <1>1, WrapExact
<1> QED
  BY <1>1, <1>2, <1>3, <1>4, WrapType

\* A deadline in front of the clock by no more than the interval will be met.
LEMMA MetInTime ==
    ASSUME NEW m \in 0 .. ULONG_MAX, NEW d \in 0 .. ULONG_MAX, Ticks(m), Ticks(d),
           m < d, d <= m + Interval
    PROVE  \E k \in 1 .. Period : Wrap(m + k * Resolution) = d
<1>1. Resolution \in Nat \ {0} /\ Period \in Nat /\ Interval = Period * Resolution
      /\ ULONG_MAX \in Nat /\ Interval \in Nat /\ m \in Nat /\ d \in Nat
  BY ClockConstants
<1>2. PICK k \in Nat : d - m = k * Resolution
  <2>1. Ticks(d - m)
    BY <1>1, TicksSum
  <2> QED
    BY <2>1 DEF Ticks
<1>3. k # 0
  BY <1>1, <1>2
<1>4. k <= Period
  <2> SUFFICES ASSUME Period < k PROVE FALSE
    BY <1>1
  <2>1. Resolution * (Period + 1) <= Resolution * k
    BY <1>1, MulMono
  <2>2. Resolution * (Period + 1) = Interval + Resolution /\ Resolution * k = d - m
    BY <1>1, <1>2
  <2> QED
    BY <1>1, <2>1, <2>2
<1>5. m + k * Resolution = d
  BY <1>1, <1>2
<1>6. Wrap(d) = d
  BY <1>1, WrapExact
<1>7. k \in 1 .. Period /\ Wrap(m + k * Resolution) = d
  <2>1. k \in 1 .. Period
    BY <1>1, <1>3, <1>4
  <2> QED
    BY <1>5, <1>6, <2>1
<1> QED
  BY <1>7

\* The deadline behind no wrap was set at most an interval ahead of a time that was
\* not after the last reading, and is not before it; one behind a wrap lies in the
\* interval at its start.
DeadlineSet ==
    /\ Ticks(micros) /\ Ticks(encoderDelay)
    /\ encoderWrapped => encoderDelay < Interval
    /\ ~encoderWrapped =>
          /\ lastMicrosValue <= encoderDelay
          /\ encoderDelay <= lastMicrosValue + Interval

LEMMA ClockRanges ==
    ASSUME ClockTypeOK
    PROVE  /\ micros \in 0 .. ULONG_MAX /\ lastMicrosValue \in 0 .. ULONG_MAX
           /\ encoderDelay \in 0 .. ULONG_MAX /\ encoderWrapped \in BOOLEAN
           /\ Interval \in 0 .. ULONG_MAX /\ ULONG_MAX \in Nat
BY ClockConstants DEF ClockTypeOK

LEMMA DeadlineKept ==
    ASSUME Resolution > 1, ClockTypeOK, DeadlineSet, Poll \/ Skip \/ Tick \/ UNCHANGED clock
    PROVE  DeadlineSet'
<1>1. CASE Tick
  <2>1. UNCHANGED <<lastMicrosValue, encoderDelay, encoderWrapped>>
        /\ micros' = Wrap(micros + Resolution)
    BY <1>1 DEF Tick
  <2>2. Ticks(micros')
    <3>1. Resolution = 1 * Resolution
      BY ClockConstants
    <3>2. Ticks(Resolution)
      BY <3>1 DEF Ticks
    <3>3. Resolution \in 0 .. ULONG_MAX \/ Resolution > ULONG_MAX
      BY ClockConstants
    <3>4. CASE Resolution \in 0 .. ULONG_MAX
      BY <2>1, <3>2, <3>4, TicksWrap, ClockRanges DEF DeadlineSet
    <3>5. CASE Resolution > ULONG_MAX
      <4>1. PICK n \in Nat : ULONG_MAX + 1 = n * Resolution
        BY ClockConstants DEF Ticks
      <4>2. ASSUME n # 1 PROVE FALSE
        <5>1. CASE n = 0
          BY <4>1, <5>1, ClockConstants
        <5>2. CASE n >= 2
          <6>1. Resolution * 2 <= Resolution * n
            BY <5>2, MulMono, ClockConstants
          <6>2. Resolution * n = ULONG_MAX + 1
            BY <4>1, ClockConstants
          <6> QED
            BY <3>5, <6>1, <6>2, ClockConstants
        <5> QED
          BY <4>2, <5>1, <5>2
      <4>3. Resolution = ULONG_MAX + 1
        BY <4>1, <4>2, ClockConstants
      <4>4. micros = 0
        <5>1. PICK j \in Nat : micros = j * Resolution
          BY DEF DeadlineSet, Ticks
        <5>2. CASE j = 0
          BY <5>1, <5>2, ClockConstants
        <5>3. CASE j >= 1
          <6>1. Resolution * 1 <= Resolution * j
            BY <5>3, MulMono, ClockConstants
          <6>2. Resolution * j = micros
            BY <5>1, ClockConstants
          <6> QED
            BY <3>5, <6>1, <6>2, ClockConstants, ClockRanges
        <5> QED
          BY <5>2, <5>3
      <4>5. micros + Resolution = ULONG_MAX + 1
        BY <4>3, <4>4, ClockConstants
      <4>6. Wrap(ULONG_MAX + 1) = 0
        BY WrapExact, ClockConstants
      <4>7. 0 = 0 * Resolution
        BY ClockConstants
      <4> QED
        BY <2>1, <4>5, <4>6, <4>7 DEF Ticks
    <3> QED
      BY <3>3, <3>4, <3>5
  <2> QED
    BY <2>1, <2>2 DEF DeadlineSet
<1>2. CASE Poll /\ UpdateDue
  <2>1. /\ UNCHANGED micros /\ lastMicrosValue' = micros
        /\ encoderWrapped' = (micros >= ULONG_MAX - Interval)
        /\ encoderDelay' = Wrap(micros + Interval)
    BY <1>2 DEF Poll
  <2>2. /\ Ticks(Wrap(micros + Interval))
        /\ micros + Interval <= ULONG_MAX => Wrap(micros + Interval) = micros + Interval
        /\ ULONG_MAX < micros + Interval =>
              Wrap(micros + Interval) = micros + Interval - (ULONG_MAX + 1)
    BY TicksWrap, ClockRanges, ClockConstants DEF DeadlineSet
  <2>3. micros + Interval # ULONG_MAX
    <3> SUFFICES ASSUME micros + Interval = ULONG_MAX PROVE FALSE
      OBVIOUS
    <3>1. Ticks(ULONG_MAX)
      BY TicksSum, ClockRanges, ClockConstants DEF DeadlineSet
    <3>2. Ticks((ULONG_MAX + 1) - ULONG_MAX)
      <4>1. ULONG_MAX + 1 \in Nat /\ ULONG_MAX \in Nat /\ ULONG_MAX <= ULONG_MAX + 1
        BY ClockConstants
      <4> QED
        BY <3>1, <4>1, TicksSum, ClockConstants
    <3>3. (ULONG_MAX + 1) - ULONG_MAX = 1
      BY ClockConstants
    <3>4. PICK n \in Nat : 1 = n * Resolution
      BY <3>2, <3>3 DEF Ticks
    <3>5. CASE n = 0
      BY <3>4, <3>5, ClockConstants
    <3>6. CASE n >= 1
      <4>1. Resolution * 1 <= Resolution * n
        BY <3>6, MulMono, ClockConstants
      <4> QED
        BY <3>4, <4>1, ClockConstants
    <3> QED
      BY <3>5, <3>6
  <2>4. encoderWrapped' <=> micros >= ULONG_MAX - Interval
    BY <2>1, Zenon
  <2>5. CASE micros >= ULONG_MAX - Interval
    <3>1. encoderDelay' < Interval
      BY <2>1, <2>2, <2>3, <2>5, ClockRanges
    <3> QED
      BY <2>1, <2>2, <2>4, <2>5, <3>1 DEF DeadlineSet
  <2>6. CASE ~(micros >= ULONG_MAX - Interval)
    <3>1. encoderDelay' = micros + Interval
      BY <2>1, <2>2, <2>6, ClockRanges
    <3>2. lastMicrosValue' <= encoderDelay' /\ encoderDelay' <= lastMicrosValue' + Interval
      BY <2>1, <3>1, ClockRanges
    <3> QED
      BY <2>1, <2>2, <2>4, <2>6, <3>2 DEF DeadlineSet
  <2> QED
    BY <2>5, <2>6
<1>3. CASE Poll /\ ~UpdateDue
  <2>1. /\ UNCHANGED <<micros, encoderWrapped, encoderDelay>> /\ lastMicrosValue' = micros
    BY <1>3 DEF Poll
  <2>2. ASSUME ~encoderWrapped
        PROVE  micros <= encoderDelay /\ encoderDelay <= micros + Interval
    <3>1. lastMicrosValue <= encoderDelay /\ encoderDelay <= lastMicrosValue + Interval
      BY <2>2 DEF DeadlineSet
    <3>2. IF micros < lastMicrosValue THEN encoderDelay <= micros ELSE ~(encoderDelay <= micros)
      BY <1>3, <2>2, ClockRanges DEF UpdateDue
    <3> QED
      BY <3>1, <3>2, ClockRanges
  <2> QED
    BY <2>1, <2>2 DEF DeadlineSet
<1>4. CASE Skip \/ UNCHANGED clock
  BY <1>4 DEF Skip, clock, DeadlineSet
<1> QED
  BY <1>1, <1>2, <1>3, <1>4

\* Every step of the system is one of the clock, or leaves it alone.
LEMMA ClockSteps ==
    ASSUME [Next]_vars
    PROVE  Poll \/ Skip \/ Tick \/ UNCHANGED clock
BY DEF Next, Step, PollEncoder, Create, Destroy, TurnPin, vars

LEMMA StallsBehindWrap ==
    ASSUME ClockTypeOK, DeadlineSet
    PROVE  StallsOnlyAtWrap
<1> SUFFICES ASSUME ~UpdateDue, ~DeadlineAhead
             PROVE  /\ encoderWrapped
                    /\ encoderDelay < Interval
                    /\ lastMicrosValue <= micros /\ encoderDelay <= micros
  BY DEF StallsOnlyAtWrap
<1>1. ~(micros < encoderDelay /\ encoderDelay <= micros + Interval)
  BY MetInTime, ClockRanges DEF DeadlineSet, DeadlineAhead
<1>2. CASE encoderWrapped
  <2>1. encoderDelay < Interval
    BY <1>2 DEF DeadlineSet
  <2>2. IF micros < lastMicrosValue THEN ~(encoderDelay <= micros) ELSE encoderDelay <= micros
    BY <1>2, ClockRanges DEF UpdateDue
  <2> QED
    BY <1>1, <1>2, <2>1, <2>2, ClockRanges
<1>3. CASE ~encoderWrapped
  <2>1. lastMicrosValue <= encoderDelay /\ encoderDelay <= lastMicrosValue + Interval
    BY <1>3 DEF DeadlineSet
  <2>2. IF micros < lastMicrosValue THEN encoderDelay <= micros ELSE ~(encoderDelay <= micros)
    BY <1>3, ClockRanges DEF UpdateDue
  <2> QED
    BY <1>1, <2>1, <2>2, ClockRanges
<1> QED
  BY <1>2, <1>3, ClockRanges

\* On a clock of any width the encoder waits for a second wrap only when its deadline
\* lay just behind the first and the pass that looked came too late for it; the
\* readings of a disabled encoder, however old, do no harm (MecanumMaster.cpp:138-174).
\* A clock whose every value is a tick could set a deadline on ULONG_MAX itself,
\* which counts as wrapped: that of the Arduino shows every fourth.
THEOREM StallsOnlyAtWrapHolds ==
    ASSUME Resolution > 1
    PROVE  Spec => []StallsOnlyAtWrap
<1>1. Init => DeadlineSet
  <2>1. 0 = 0 * Resolution /\ 0 <= 0 /\ 0 <= 0 + Interval
    BY ClockConstants
  <2>2. Ticks(0)
    BY <2>1 DEF Ticks
  <2> QED
    BY <2>1, <2>2 DEF Init, ClockInit, DeadlineSet
<1>2. SentryInv /\ DeadlineSet /\ [Next]_vars => DeadlineSet'
  BY DeadlineKept, ClockSteps DEF SentryInv, TypeOK
<1>3. SentryInv /\ DeadlineSet => StallsOnlyAtWrap
  BY StallsBehindWrap DEF SentryInv, TypeOK
<1> QED
  BY <1>1, <1>2, <1>3, Invariance, PTL DEF Spec
=============================================================================

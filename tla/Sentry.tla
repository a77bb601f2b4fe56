------------------------------- MODULE Sentry --------------------------------
(***************************************************************************)
(* The Sentry FSM and its Encoder: a servo sweeps to the left and to the   *)
(* right, and while it moves the loop samples an infrared sensor, packs    *)
(* the levels into bits and publishes a message whenever it is full.       *)
(*                                                                         *)
(* Step() comes when the manager's schedule says so (MecanumMaster); here  *)
(* it may come at any time.  m_ticks is counted and never sent; it is left *)
(* out.                                                                    *)
(***************************************************************************)
EXTENDS EncoderClock, Sequences

CONSTANTS
    BITS, BYTES,          \* 8 bits in a byte, 16 bytes of samples in a message
    INITIAL_MIDPOINT,     \* 1500 microseconds of pulse length
    NOMINAL_uS_PER_TICK,  \* 30
    LEFT, RIGHT           \* the limits of the sweep: 800 and 2200

ASSUME SweepAssumption ==
    /\ {BITS, BYTES, INITIAL_MIDPOINT, NOMINAL_uS_PER_TICK, LEFT, RIGHT} \subseteq Nat \ {0}
    /\ LEFT <= INITIAL_MIDPOINT - NOMINAL_uS_PER_TICK
    /\ INITIAL_MIDPOINT + NOMINAL_uS_PER_TICK <= RIGHT

VARIABLES
    loaded,            \* the manager holds the Sentry, and its Encoder
    m_state,           \* Sentry::m_state
    m_targetMicros,
    m_enabled,         \* of the Encoder, as is what follows
    level,             \* Encoder::m_state
    m_sampleCount,
    m_sampleMessage,   \* its bytes from the fifth on, each the set of its 1 bits
    pin,               \* the level of ENCODER_PIN
    published,         \* the message the last step wrote to the serial port, or none
    taken, batch       \* not in the code: the samples, with the sweep they belong to,
                       \* taken since the last message, and those before it

sweep == <<loaded, m_state, m_targetMicros>>
encoder == <<m_enabled, level, m_sampleCount, m_sampleMessage>>
line == <<published, taken, batch>>
vars == <<clock, sweep, encoder, pin, line>>

None == [length |-> 0, count |-> 0, bytes |-> <<>>]
Samples == BITS * BYTES
-----------------------------------------------------------------------------
(* Encoder *)

\* Publish(): only the bytes that hold samples are sent.
MessageLength(count) == 5 + (count - 1) \div BITS

Publish(count, buffer, samples) ==
    /\ published' = [length |-> MessageLength(count), count |-> count,
                     bytes |-> SubSeq(buffer, 1, MessageLength(count) - 4)]
    /\ m_sampleCount' = 0
    /\ batch' = samples
    /\ taken' = <<>>

\* Recorded: the bytes with sample number m_sampleCount set to bit b.  The first
\* bit of a byte overwrites what was there.  (Slip: it does not.)
Recorded_Dirty(b) ==
    [m_sampleMessage EXCEPT ![m_sampleCount \div BITS + 1] =
        IF b = 1 THEN @ \cup {m_sampleCount % BITS} ELSE @]
Recorded(b) ==
    [m_sampleMessage EXCEPT ![m_sampleCount \div BITS + 1] =
        (IF m_sampleCount % BITS = 0 THEN {} ELSE @)
            \cup (IF b = 1 THEN {m_sampleCount % BITS} ELSE {})]

\* The level is that of the pin, the sample is stored, a full message sent.
Update ==
    LET samples == Append(taken, <<level', m_state>>)
    IN  /\ level' = pin
        /\ m_sampleMessage' = Recorded(level')
        /\ IF m_sampleCount + 1 = Samples
           THEN Publish(m_sampleCount + 1, m_sampleMessage', samples)
           ELSE /\ m_sampleCount' = m_sampleCount + 1
                /\ taken' = samples
                /\ published' = None
                /\ UNCHANGED batch
        /\ UNCHANGED m_enabled

Start ==
    /\ m_enabled' = TRUE
    /\ level' = pin
    /\ m_sampleCount' = 0
    /\ published' = None
    /\ UNCHANGED <<m_sampleMessage, taken, batch>>

\* Disable() publishes what is left.  (Slip: it does not.)
Disable_Quiet ==
    /\ m_enabled' = FALSE
    /\ published' = None
    /\ UNCHANGED <<level, m_sampleCount, m_sampleMessage, taken, batch>>
Disable ==
    /\ m_enabled' = FALSE
    /\ IF m_enabled /\ m_sampleCount > 0
       THEN Publish(m_sampleCount, m_sampleMessage, taken)
       ELSE published' = None /\ UNCHANGED <<m_sampleCount, taken, batch>>
    /\ UNCHANGED <<level, m_sampleMessage>>
-----------------------------------------------------------------------------
(* Sentry::Step() *)

StepMidpoint ==
    /\ m_state = "SEEKING_MIDPOINT"
    /\ m_state' = "SEEKING_LEFT"
    /\ published' = None
    /\ UNCHANGED <<m_targetMicros, encoder, taken, batch>>

Sweeping == m_state \in {"SEEKING_LEFT", "SEEKING_RIGHT"}

\* Another step would take the servo past a limit.
AtLimit ==
    \/ m_targetMicros - NOMINAL_uS_PER_TICK < LEFT
    \/ m_targetMicros + NOMINAL_uS_PER_TICK > RIGHT

\* The sweep ends and the servo returns to the middle.
StepReturn ==
    /\ Sweeping /\ AtLimit
    /\ Disable
    /\ m_targetMicros' = INITIAL_MIDPOINT
    /\ m_state' = IF m_state = "SEEKING_LEFT" THEN "SEEKING_RIGHT" ELSE "FINISHED"

\* The servo moves on; at the midpoint the encoder is started first.
StepMove ==
    /\ Sweeping /\ ~AtLimit
    /\ IF m_targetMicros = INITIAL_MIDPOINT
       THEN Start
       ELSE published' = None /\ UNCHANGED <<encoder, taken, batch>>
    /\ m_targetMicros' = IF m_state = "SEEKING_LEFT"
                         THEN m_targetMicros - NOMINAL_uS_PER_TICK
                         ELSE m_targetMicros + NOMINAL_uS_PER_TICK
    /\ UNCHANGED m_state

Step ==
    /\ loaded
    /\ StepMidpoint \/ StepReturn \/ StepMove
    /\ UNCHANGED <<loaded, clock, pin>>
-----------------------------------------------------------------------------
(* The manager, and the world *)

\* The end of a pass of Spin().
PollEncoder ==
    /\ IF loaded /\ m_enabled
       THEN /\ Poll
            /\ IF UpdateDue THEN Update ELSE published' = None /\ UNCHANGED <<encoder, taken, batch>>
       ELSE /\ Skip
            /\ published' = None
            /\ UNCHANGED <<encoder, taken, batch>>
    /\ UNCHANGED <<sweep, pin>>

\* A Sentry is created; its buffer is not initialised.
Constructed ==
    /\ m_state' = "SEEKING_MIDPOINT"
    /\ m_targetMicros' = INITIAL_MIDPOINT
    /\ m_enabled' = FALSE
    /\ level' = 0
    /\ m_sampleCount' = 0
    /\ \E garbage \in {{}, 0 .. BITS - 1} :
         m_sampleMessage' = [k \in 1 .. BYTES |-> garbage]

Create ==
    /\ ~loaded
    /\ loaded' = TRUE
    /\ Constructed
    /\ published' = None /\ taken' = <<>> /\ batch' = <<>>
    /\ UNCHANGED <<clock, pin>>

\* It is destroyed, with the samples it has not published.
Destroy ==
    /\ loaded
    /\ loaded' = FALSE
    /\ published' = None /\ taken' = <<>> /\ batch' = <<>>
    /\ UNCHANGED <<clock, pin, m_state, m_targetMicros, encoder>>

TurnPin == pin' = 1 - pin /\ UNCHANGED <<clock, sweep, encoder, line>>

Init ==
    /\ ClockInit
    /\ loaded = FALSE
    /\ m_state = "SEEKING_MIDPOINT" /\ m_targetMicros = INITIAL_MIDPOINT
    /\ m_enabled = FALSE /\ level = 0 /\ m_sampleCount = 0
    /\ m_sampleMessage = [k \in 1 .. BYTES |-> {}]
    /\ pin = 0
    /\ published = None /\ taken = <<>> /\ batch = <<>>

Next ==
    \/ Step \/ PollEncoder \/ Create \/ Destroy \/ TurnPin
    \/ Tick /\ UNCHANGED <<sweep, encoder, pin, line>>

Spec == Init /\ [][Next]_vars
-----------------------------------------------------------------------------
(* Properties *)

Levels == {0, 1}
Sample == Levels \X {"SEEKING_LEFT", "SEEKING_RIGHT"}

TypeOK ==
    /\ ClockTypeOK
    /\ loaded \in BOOLEAN /\ m_enabled \in BOOLEAN
    /\ m_state \in {"SEEKING_MIDPOINT", "SEEKING_LEFT", "SEEKING_RIGHT", "FINISHED"}
    /\ m_targetMicros \in LEFT .. RIGHT
    /\ level \in Levels /\ pin \in Levels
    /\ m_sampleCount \in 0 .. Samples - 1
    /\ m_sampleMessage \in [1 .. BYTES -> SUBSET (0 .. BITS - 1)]
    /\ taken \in Seq(Sample) /\ batch \in Seq(Sample)

\* What SentryMonitor makes of a message (SentryMonitor.cpp:73-94): nothing if
\* its checks of the length and the count fail, else a level for each sample.
Decoded(msg) ==
    IF msg.length <= 4 \/ msg.count > BITS * (msg.length - 4) THEN <<>>
    ELSE [k \in 1 .. msg.count |->
            IF (k - 1) % BITS \in msg.bytes[(k - 1) \div BITS + 1] THEN 1 ELSE 0]

\* The host reads from a message exactly the levels sampled since the message
\* before, in order, in one sweep, and no byte is sent in vain.
BatchesAreSamples ==
    published # None =>
        /\ Decoded(published) = [k \in DOMAIN batch |-> batch[k][1]]
        /\ \A k \in DOMAIN batch : batch[k][2] = batch[1][2]
        /\ BITS * (published.length - 5) < published.count

\* When the servo is parked everything that was sampled has been published
\* (Disable(), Sentry.cpp:75-83), so that no sample gets into the next sweep.
NothingPendingWhenParked ==
    loaded /\ m_targetMicros = INITIAL_MIDPOINT =>
        ~m_enabled /\ m_sampleCount = 0 /\ taken = <<>>

\* "Publish period = 1ms / 2 samples * 128 samples / message = 64ms"
\* (SentryMonitor.cpp:67): while the encoder is enabled it is due for a sample,
\* or will be within the interval; a wrap does not leave it waiting for the next.
DeadlineAhead == \E k \in 1 .. Period : Wrap(micros + k * Resolution) = encoderDelay
NeverStalls == loaded /\ m_enabled => UpdateDue \/ DeadlineAhead

\* What holds of it: the only deadlines missed are those that lie behind a wrap
\* and fall between the first pass behind it and the second.
StallsOnlyAtWrap ==
    loaded /\ m_enabled /\ ~UpdateDue /\ ~DeadlineAhead =>
        /\ encoderWrapped
        /\ encoderDelay < Interval
        /\ lastMicrosValue <= micros /\ encoderDelay <= micros
=============================================================================

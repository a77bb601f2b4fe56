---------------------------- MODULE MecanumMaster ----------------------------
(***************************************************************************)
(* The Arduino program's FSM manager: the FSM array (FSMVector), the array *)
(* of deadlines beside it, the loop of Spin() and the serial messages that *)
(* create, destroy, list and wake FSMs.                                    *)
(*                                                                         *)
(* The program is single threaded; what happens between any two of its     *)
(* steps is a tick of the millisecond clock or the arrival of a message.   *)
(* A message in rx is complete: framing is not modelled here.              *)
(*                                                                         *)
(* Array slots count from 0, as in the code.  A slot Erase() vacates at    *)
(* the end keeps a dangling pointer in the code; it is NULL here.          *)
(***************************************************************************)
EXTENDS FiniteStateMachine, Sequences

CONSTANTS
    MaxFsm,        \* MAX_FSM, and the modulus of the uint8_t m_size: 256
    TimeMod,       \* the modulus of unsigned long: 2^32
    BootFsms,      \* the fingerprints Init() loads: ChristmasTree and Mimic
    HostMessages,  \* the messages the host sends
    BufferLength,  \* BUFFERLENGTH, the capacity of buffer_bytes
    DescLength,    \* the length of a fingerprint of each ID
    RxCap,         \* bound: messages waiting in the serial buffer
    HostLimit,     \* bound: FSMs the host keeps loaded
    Horizon,       \* bound: the clock stops here (no bound if >= TimeMod)
    PassBudget     \* assumption on speed: clock ticks during one pass of Spin()

MasterMsgs ==
    [dst : {"FSM_MASTER"}, op : {"CREATE", "DESTROY"}, par : Params]
        \cup [dst : {"FSM_MASTER"}, op : {"LIST", "unknown"}, par : {NULL}]

ASSUME SizeAssumption ==
    /\ MaxFsm \in Nat \ {0}
    /\ TimeMod \in Nat \ {0}
    /\ {BufferLength, RxCap, HostLimit, Horizon, PassBudget} \subseteq Nat
    /\ DescLength \in [PinIDs \cup SoleIDs -> Nat]

ASSUME BootAssumption ==
    /\ BootFsms \in Seq(Fingerprints)
    /\ Len(BootFsms) < MaxFsm
    /\ \A i \in 1 .. Len(BootFsms) : BootFsms[i].id # "FSM_SENTRY"

ASSUME HostAssumption == HostMessages \subseteq MasterMsgs \cup FsmMsgs

VARIABLES
    m_fsmv,      \* the array of pointers
    m_size,      \* the number of FSMs in it
    fsmDelay,    \* when each slot is to be stepped next
    m_encoder,   \* the Sentry whose Encoder the loop samples, NULL or "wild"
    heap,        \* addresses of the Sentry objects not yet deleted
    pc, i,       \* Spin(): where the loop is, and its slot
    rx, tx,      \* messages from the host; the reply to the last of them
    now,         \* millis()
    passTicks,   \* not in the code: ticks since this pass of Spin() began
    shiftedFrom  \* not in the code: the lowest slot whose deadline may belong to
                 \* another FSM, because Erase() moved FSMs and not deadlines

array == <<m_fsmv, m_size, heap>>
vars == <<m_fsmv, m_size, heap, fsmDelay, m_encoder, pc, i, rx, tx, now,
          passTicks, shiftedFrom>>

Slots == 0 .. MaxFsm - 1
Live == 0 .. m_size - 1
Time == 0 .. TimeMod - 1
ULong(t) == t % TimeMod
-----------------------------------------------------------------------------
(* FSMVector *)

\* PushBack(): stores a new FSM in the first free slot.  m_size is a uint8_t.
\* NULL is dropped, as is an FSM that does not fit.
PushBack(f) ==
    IF f # NULL /\ m_size < MaxFsm
    THEN /\ m_fsmv' = [m_fsmv EXCEPT ![m_size] = f]
         /\ m_size' = (m_size + 1) % MaxFsm
         /\ heap' = heap \cup ({f.addr} \ {NULL})
         /\ shiftedFrom' = IF m_size' = 0 THEN 0 ELSE shiftedFrom
    ELSE UNCHANGED <<array, shiftedFrom>>

\* GetIndex() returns k: the first FSM described by par, or -1 as an unsigned
\* char, which is the largest index.
GetIndex(par, k) ==
    LET Match == {j \in Live : m_fsmv[j].fp = par}
    IN  \/ k \in Match /\ \A j \in Match : k <= j
        \/ Match = {} /\ k = MaxFsm - 1

\* What Erase(k) makes of the array: the FSMs behind slot k move down by one.
\* (Slips: the shift starts one slot late; the last FSM fills the gap, as
\* QuickErase() does.)
Shifted_Late(k) ==
    [j \in Slots |-> IF j \in k + 1 .. m_size - 2 THEN m_fsmv[j + 1] ELSE m_fsmv[j]]
Shifted_Quick(k) == [m_fsmv EXCEPT ![k] = m_fsmv[m_size - 1], ![m_size - 1] = NULL]
Shifted(k) ==
    [j \in Slots |-> IF j \in k .. m_size - 2 THEN m_fsmv[j + 1]
                     ELSE IF j = m_size - 1 THEN NULL
                     ELSE m_fsmv[j]]

\* Erase(): deletes the FSM in slot k, if there is one.  fsmDelay belongs to
\* MecanumMaster and is not touched.
Erase(k) ==
    IF k \in Live
    THEN /\ m_fsmv' = Shifted(k)
         /\ m_size' = m_size - 1
         /\ heap' = heap \ {m_fsmv[k].addr}
         /\ shiftedFrom' = IF k < shiftedFrom THEN k ELSE shiftedFrom
    ELSE UNCHANGED <<array, shiftedFrom>>
-----------------------------------------------------------------------------
(* MecanumMaster::Message(): the messages to FSM_MASTER *)

\* A NULL Sentry is not caught before GetEncoder(): the pointer is then the
\* offset of m_encoder in a Sentry.
CreateFsm(par) ==
    /\ \E f \in NewFromArray(par, Addr \ heap, now) :
         /\ PushBack(f)
         /\ m_encoder' = IF par.id # "FSM_SENTRY" THEN m_encoder
                         ELSE IF f = NULL THEN "wild"
                         ELSE f.addr
    /\ tx' = <<>>
    /\ UNCHANGED fsmDelay

\* A slip: the encoder outlives its Sentry.
DestroyFsm_KeepsEncoder(par) ==
    /\ \E k \in Slots : GetIndex(par, k) /\ Erase(k)
    /\ tx' = <<>>
    /\ UNCHANGED <<fsmDelay, m_encoder>>

DestroyFsm(par) ==
    /\ m_encoder' = IF par.id = "FSM_SENTRY" THEN NULL ELSE m_encoder
    /\ \E k \in Slots : GetIndex(par, k) /\ Erase(k)
    /\ tx' = <<>>
    /\ UNCHANGED fsmDelay

\* Whether size bytes fit in buffer_bytes.  (A slip: not the last byte.)
Fits_Strict(size) == size < BufferLength
Fits(size) == size <= BufferLength

\* The reply: a 4 byte header, then each FSM that still fits in the buffer.
Listing ==
    LET Listed[n \in 0 .. m_size] ==
          IF n = 0 THEN [fsms |-> <<>>, size |-> 4]
          ELSE LET sent == Listed[n - 1]
                   fp == m_fsmv[n - 1].fp
                   size == sent.size + 2 + DescLength[fp.id]
               IN  IF Fits(size)
                   THEN [fsms |-> Append(sent.fsms, fp), size |-> size]
                   ELSE sent
    IN  Listed[m_size].fsms

ListFsms ==
    /\ tx' = Listing
    /\ UNCHANGED <<array, fsmDelay, m_encoder, shiftedFrom>>

Message(m) ==
    \/ m.op = "CREATE" /\ CreateFsm(m.par)
    \/ m.op = "DESTROY" /\ DestroyFsm(m.par)
    \/ m.op = "LIST" /\ ListFsms
    \/ m.op = "unknown" /\ tx' = <<>>
       /\ UNCHANGED <<array, fsmDelay, m_encoder, shiftedFrom>>
-----------------------------------------------------------------------------
(* MecanumMaster::SerialCallback() *)

\* A message to an FSM's ID goes to every FSM with it; those whose Message()
\* returns true are stepped at once and rescheduled.
Dispatch(m) ==
    LET Woken == {j \in Live : Wakes(m_fsmv[j], m)}
    IN  /\ m_fsmv' = [j \in Slots |-> IF j \in Woken
                                      THEN Stepped(Messaged(m_fsmv[j], m), now)
                                      ELSE m_fsmv[j]]
        /\ fsmDelay' = [j \in Slots |->
                          IF j \in Woken
                          THEN ULong(StepDelay(Messaged(m_fsmv[j], m)) + now)
                          ELSE fsmDelay[j]]
        /\ tx' = <<>>
        /\ UNCHANGED <<m_size, heap, m_encoder, shiftedFrom>>

SerialCallback ==
    /\ pc = "serial"
    /\ rx # <<>>
    /\ rx' = Tail(rx)
    /\ LET m == Head(rx)
       IN  IF m.dst = "FSM_MASTER" THEN Message(m) ELSE Dispatch(m)
    /\ UNCHANGED <<pc, i, now, passTicks>>
-----------------------------------------------------------------------------
(* The rest of MecanumMaster::Spin() *)

\* Serial.available() is 0: on to the FSMs.
SerialIdle ==
    /\ pc = "serial"
    /\ rx = <<>>
    /\ pc' = "step"
    /\ i' = 0
    /\ UNCHANGED <<array, fsmDelay, m_encoder, rx, tx, now, passTicks, shiftedFrom>>

\* Whether the delay of slot k has elapsed.  (Slips: one tick early; only when
\* the clock shows exactly the deadline.)
Due_Early(k) == fsmDelay[k] <= now + 1
Due_Exactly(k) == fsmDelay[k] = now
Due(k) == fsmDelay[k] <= now

\* One turn of the for loop: step the FSM in slot i if its delay has elapsed.
StepFsm ==
    /\ pc = "step"
    /\ i < m_size
    /\ IF Due(i)
       THEN /\ m_fsmv' = [m_fsmv EXCEPT ![i] = Stepped(m_fsmv[i], now)]
            /\ fsmDelay' = [fsmDelay EXCEPT ![i] = ULong(StepDelay(m_fsmv[i]) + now)]
       ELSE UNCHANGED <<m_fsmv, fsmDelay>>
    /\ i' = i + 1
    /\ UNCHANGED <<m_size, heap, m_encoder, pc, rx, tx, now, passTicks, shiftedFrom>>

\* A slip: the serial port is only read before the first pass.
PollEncoder_SkipsSerial ==
    /\ pc = "step"
    /\ i >= m_size
    /\ i' = 0
    /\ passTicks' = 0
    /\ UNCHANGED <<array, fsmDelay, m_encoder, pc, rx, tx, now, shiftedFrom>>

\* After the last slot the encoder, if any, is sampled and the pass is over.
PollEncoder ==
    /\ pc = "step"
    /\ i >= m_size
    /\ pc' = "serial"
    /\ i' = 0
    /\ passTicks' = 0
    /\ UNCHANGED <<array, fsmDelay, m_encoder, rx, tx, now, shiftedFrom>>

Spin == SerialCallback \/ SerialIdle \/ StepFsm \/ PollEncoder
-----------------------------------------------------------------------------
(* What goes on around the program *)

\* millis() advances, wrapping at TimeMod, at most PassBudget times in a pass.
Tick ==
    /\ now # Horizon
    /\ passTicks < PassBudget
    /\ now' = ULong(now + 1)
    /\ passTicks' = passTicks + 1
    /\ UNCHANGED <<array, fsmDelay, m_encoder, pc, i, rx, tx, shiftedFrom>>

\* The host sends a message.  It keeps at most HostLimit FSMs loaded.
HostSend ==
    /\ Len(rx) < RxCap
    /\ \E m \in HostMessages :
         /\ m.op = "CREATE" => m_size + Len(rx) < HostLimit
         /\ rx' = Append(rx, m)
    /\ UNCHANGED <<array, fsmDelay, m_encoder, pc, i, tx, now, passTicks, shiftedFrom>>

\* Init() of the program: the object is static, so its memory starts as zeros.
Init ==
    /\ m_fsmv = [j \in Slots |-> IF j < Len(BootFsms)
                                 THEN New(BootFsms[j + 1], NULL, 0) ELSE NULL]
    /\ m_size = Len(BootFsms)
    /\ heap = {}
    /\ fsmDelay = [j \in Slots |-> 0]
    /\ m_encoder = NULL
    /\ pc = "serial" /\ i = 0
    /\ rx = <<>> /\ tx = <<>>
    /\ now = 0
    /\ passTicks = 0
    /\ shiftedFrom = MaxFsm

Next == Spin \/ Tick \/ HostSend

Spec == Init /\ [][Next]_vars

\* The processor never stops running the loop.
FairSpec == Spec /\ WF_vars(Spin)
-----------------------------------------------------------------------------
(* Properties *)

\* The fingerprints of the FSMs in the array, in order.
Loaded == [j \in 1 .. m_size |-> m_fsmv[j - 1].fp]

TypeOK ==
    /\ m_fsmv \in [Slots -> Objects \cup {NULL}]
    /\ m_size \in Slots
    /\ \A j \in Live : m_fsmv[j] \in Objects
    /\ fsmDelay \in [Slots -> Time]
    /\ m_encoder \in Addr \cup {NULL, "wild"}
    /\ heap \subseteq Addr
    /\ pc \in {"serial", "step"}
    /\ i \in 0 .. MaxFsm
    /\ rx \in Seq(HostMessages)
    /\ now \in Time
    /\ passTicks \in 0 .. PassBudget
    /\ shiftedFrom \in 0 .. MaxFsm

\* The pointer the loop dereferences after every pass (MecanumMaster.cpp:132)
\* is NULL or points into a Sentry that has not been deleted, whatever mix of
\* equal and different FSMs was created and destroyed before.
EncoderSafe == m_encoder # NULL => m_encoder \in heap

\* No Sentry in the array has been deleted and none is in the array twice, so
\* that neither Step() nor a later Erase() touches freed memory: what the
\* shifting in Erase() (FSMVector.cpp:48-57) has to get right.
ArrayOwnsItsSentries ==
    \A j, k \in Live :
        m_fsmv[j].addr # NULL =>
            /\ m_fsmv[j].addr \in heap
            /\ m_fsmv[j].addr = m_fsmv[k].addr => j = k

\* The array implements the list the host sees: creating appends, destroying
\* removes the first match and keeps the order (FSMVector.h:47-77).
Registry == INSTANCE FsmRegistry WITH fsms <- Loaded
RegistrySpec == Registry!Spec

\* A reply to LIST names every loaded FSM, in order (MecanumMaster.h:42-46).
ListsEveryFsm ==
    [][SerialCallback /\ Head(rx).op = "LIST" => tx' = Loaded]_vars

\* An FSM is stepped at most two passes after the time it asked for, from its
\* creation on, as long as no FSM before it has ever been erased: messages,
\* creations and the erasure of later FSMs leave its deadline alone.
Punctual ==
    \A j \in Live : j < shiftedFrom => now <= m_fsmv[j].due + 2 * PassBudget

\* "The return value is the amount of time that elapses before the next call
\* to Step()" (FiniteStateMachine.h:84): under the same condition the loop
\* never steps an FSM before the time it asked for.
NeverEarly ==
    [][StepFsm /\ m_fsmv' # m_fsmv /\ i < shiftedFrom => m_fsmv[i].due <= now]_vars

\* Motors are driving only until TIMEOUT has passed since the last command
\* (and the loop had two passes to notice): MotorController.cpp:75.
MotorsTimeOut ==
    \A j \in Live :
        m_fsmv[j].fp.id = "FSM_MOTORCONTROLLER" /\ m_fsmv[j].on
            => now <= m_fsmv[j].due + 2 * PassBudget

\* A message the host sent is handled.
MessagesHandled == rx # <<>> ~> rx = <<>>
=============================================================================

------------------------ MODULE MecanumMaster_proofs ------------------------
(* Theorems about MecanumMaster, for every value of its constants. *)
EXTENDS MecanumMaster, WellFoundedInduction, TLAPS

-----------------------------------------------------------------------------
(* What the operators return. *)

\* unsigned long arithmetic stays in range and never increases its argument.
LEMMA ULongBound ==
    ASSUME NEW t \in Nat
    PROVE  ULong(t) \in Time /\ ULong(t) <= t
<1>1. TimeMod \in Nat /\ TimeMod > 0
  BY SizeAssumption
<1> QED
  BY <1>1 DEF ULong, Time

\* ... and is exact below the modulus.
LEMMA ULongExact ==
    ASSUME NEW t \in Nat, t < TimeMod
    PROVE  ULong(t) = t
<1>1. TimeMod \in Nat /\ TimeMod > 0
  BY SizeAssumption
<1> QED
  BY <1>1 DEF ULong

\* The counter of the array, which wraps.
LEMMA SizeStep ==
    ASSUME NEW n \in Slots
    PROVE  (n + 1) % MaxFsm = IF n + 1 = MaxFsm THEN 0 ELSE n + 1
<1>1. MaxFsm \in Nat /\ MaxFsm > 0 /\ n \in Nat /\ n < MaxFsm
  BY SizeAssumption DEF Slots
<1>2. CASE n + 1 = MaxFsm
  BY <1>1, <1>2
<1>3. CASE n + 1 < MaxFsm
  BY <1>1, <1>3
<1> QED
  BY <1>1, <1>2, <1>3

\* The delays a Step() may return.
Delays == {BlinkDelay, SentryDelay, TIMEOUT, FOREVER}

LEMMA StepDelayType ==
    ASSUME NEW f \in Objects
    PROVE  StepDelay(f) \in Delays /\ StepDelay(f) \in Nat
BY DelayAssumption DEF StepDelay, ToggleDelay, MotorControllerDelay, Delays

LEMMA SteppedType ==
    ASSUME NEW f \in Objects, NEW t \in Nat
    PROVE  /\ Stepped(f, t) \in Objects
           /\ Stepped(f, t).fp = f.fp
           /\ Stepped(f, t).addr = f.addr
           /\ Stepped(f, t).due = t + StepDelay(f)
<1> DEFINE on == CASE f.fp.id = "FSM_BLINK" -> ~f.on
                   [] f.fp.id = "FSM_MOTORCONTROLLER" -> f.on /\ f.messaged
                   [] OTHER -> f.on
           g == [f EXCEPT !.messaged = FALSE, !.on = on, !.due = t + StepDelay(f)]
<1>1. on \in BOOLEAN
  <2>1. f.on \in BOOLEAN /\ f.messaged \in BOOLEAN
    BY DEF Objects
  <2>2. CASE f.fp.id = "FSM_BLINK"
    BY <2>1, <2>2
  <2>3. CASE f.fp.id # "FSM_BLINK" /\ f.fp.id = "FSM_MOTORCONTROLLER"
    BY <2>1, <2>3
  <2>4. CASE f.fp.id # "FSM_BLINK" /\ f.fp.id # "FSM_MOTORCONTROLLER"
    BY <2>1, <2>4
  <2> QED
    BY <2>2, <2>3, <2>4
<1>2. t + StepDelay(f) \in Nat
  BY StepDelayType
<1>3. Stepped(f, t) = g
  BY DEF Stepped, BlinkOn, MotorControllerOn
<1> HIDE DEF on
<1> QED
  BY <1>1, <1>2, <1>3 DEF Objects

LEMMA MessagedType ==
    ASSUME NEW f \in Objects, NEW m
    PROVE  /\ Messaged(f, m) \in Objects
           /\ Messaged(f, m).fp = f.fp
           /\ Messaged(f, m).addr = f.addr
<1> DEFINE on == CASE m.op = "off" -> FALSE [] m.op = "on" -> TRUE [] OTHER -> ~f.on
<1>1. on \in BOOLEAN /\ (m.op = "drive") \in BOOLEAN
  <2>1. f.on \in BOOLEAN
    BY DEF Objects
  <2> QED
    BY <2>1
<1>2. /\ ToggleMessage(f, m) = [f EXCEPT !.on = on]
      /\ MotorControllerMessage(f, m) = [f EXCEPT !.on = (m.op = "drive"), !.messaged = TRUE]
  BY DEF ToggleMessage, MotorControllerMessage
<1> HIDE DEF on
<1>3. /\ ToggleMessage(f, m) \in Objects /\ ToggleMessage(f, m).fp = f.fp
      /\ ToggleMessage(f, m).addr = f.addr
  BY <1>1, <1>2 DEF Objects
<1>4. /\ MotorControllerMessage(f, m) \in Objects /\ MotorControllerMessage(f, m).fp = f.fp
      /\ MotorControllerMessage(f, m).addr = f.addr
  BY <1>1, <1>2 DEF Objects
<1> QED
  BY <1>3, <1>4 DEF Messaged

\* What a message to an FSM does to an FSM it wakes.
LEMMA WokenType ==
    ASSUME NEW f \in Objects, NEW m, NEW t \in Nat
    PROVE  /\ Stepped(Messaged(f, m), t) \in Objects
           /\ Stepped(Messaged(f, m), t).fp = f.fp
           /\ Stepped(Messaged(f, m), t).addr = f.addr
           /\ Stepped(Messaged(f, m), t).due = t + StepDelay(Messaged(f, m))
           /\ StepDelay(Messaged(f, m)) \in Delays /\ StepDelay(Messaged(f, m)) \in Nat
<1> DEFINE g == Messaged(f, m)
<1>1. g \in Objects /\ g.fp = f.fp /\ g.addr = f.addr
  BY MessagedType
<1> HIDE DEF g
<1>2. /\ Stepped(g, t) \in Objects /\ Stepped(g, t).fp = g.fp
      /\ Stepped(g, t).addr = g.addr /\ Stepped(g, t).due = t + StepDelay(g)
      /\ StepDelay(g) \in Delays /\ StepDelay(g) \in Nat
  BY <1>1, SteppedType, StepDelayType
<1> QED
  BY <1>1, <1>2 DEF g

\* A constructor yields NULL or an FSM of the fingerprint asked for, due at
\* once; only a Sentry has an address.
LEMMA NewFromArrayType ==
    ASSUME NEW par \in Params, NEW free \in SUBSET Addr, NEW t \in Nat,
           NEW f \in NewFromArray(par, free, t)
    PROVE  \/ f = NULL /\ par \notin Fingerprints
           \/ /\ f \in Objects /\ f.fp = par /\ f.due = t
              /\ IF par.id = "FSM_SENTRY" THEN f.addr \in free ELSE f.addr = NULL
<1>1. CASE par \notin Fingerprints
  BY <1>1 DEF NewFromArray
<1>2. CASE par \in Fingerprints /\ par.id = "FSM_SENTRY"
  <2>1. PICK a \in free : f = New(par, a, t)
    BY <1>2 DEF NewFromArray
  <2> QED
    BY <1>2, <2>1 DEF New, Objects
<1>3. CASE par \in Fingerprints /\ par.id # "FSM_SENTRY"
  <2>1. f = New(par, NULL, t)
    BY <1>3 DEF NewFromArray
  <2> QED
    BY <1>3, <2>1 DEF New, Objects
<1> QED
  BY <1>1, <1>2, <1>3

-----------------------------------------------------------------------------
(* What the handlers of the serial messages do, case by case. *)

\* A new FSM is stored behind the others.
Stored(f) ==
    /\ m_fsmv' = [m_fsmv EXCEPT ![m_size] = f]
    /\ m_size' = (m_size + 1) % MaxFsm
    /\ heap' = heap \cup ({f.addr} \ {NULL})
    /\ shiftedFrom' = IF m_size' = 0 THEN 0 ELSE shiftedFrom

\* The FSM in slot k is deleted.
Erased(k) ==
    /\ m_fsmv' = Shifted(k)
    /\ m_size' = m_size - 1
    /\ heap' = heap \ {m_fsmv[k].addr}
    /\ shiftedFrom' = IF k < shiftedFrom THEN k ELSE shiftedFrom

\* No message to create a Sentry carries parameters that do not validate.
HonestHost ==
    \A m \in HostMessages :
        m.dst = "FSM_MASTER" /\ m.op = "CREATE" /\ m.par.id = "FSM_SENTRY"
            => m.par \in Fingerprints

\* CREATE stores an FSM of the fingerprint asked for, due now, a Sentry at an
\* address that was free; or the parameters did not validate.
LEMMA CreateCases ==
    ASSUME TypeOK, NEW par \in Params, CreateFsm(par)
    PROVE  /\ fsmDelay' = fsmDelay
           /\ \/ /\ par \notin Fingerprints
                 /\ UNCHANGED <<array, shiftedFrom>>
                 /\ m_encoder' = IF par.id # "FSM_SENTRY" THEN m_encoder ELSE "wild"
              \/ \E f \in Objects :
                    /\ f.due = now
                    /\ Stored(f)
                    /\ \/ /\ par.id = "FSM_SENTRY" /\ f.fp.id = "FSM_SENTRY"
                          /\ f.addr \in Addr \ heap /\ m_encoder' = f.addr
                       \/ /\ par.id # "FSM_SENTRY" /\ f.fp.id # "FSM_SENTRY"
                          /\ f.addr = NULL /\ m_encoder' = m_encoder
<1>1. fsmDelay' = fsmDelay
  BY DEF CreateFsm
<1>2. PICK f \in NewFromArray(par, Addr \ heap, now) :
         /\ PushBack(f)
         /\ m_encoder' = IF par.id # "FSM_SENTRY" THEN m_encoder
                         ELSE IF f = NULL THEN "wild"
                         ELSE f.addr
  BY DEF CreateFsm
<1>3. now \in Nat /\ m_size < MaxFsm /\ m_size \in Nat
  BY SizeAssumption DEF TypeOK, Time, Slots
<1>4. CASE f = NULL /\ par \notin Fingerprints
  BY <1>1, <1>2, <1>4 DEF PushBack
<1>5. CASE /\ f \in Objects /\ f.fp = par /\ f.due = now
           /\ IF par.id = "FSM_SENTRY" THEN f.addr \in Addr \ heap ELSE f.addr = NULL
  <2>1. f # NULL
    BY <1>5, NullAssumption
  <2>2. Stored(f)
    BY <1>2, <1>3, <2>1 DEF PushBack, Stored
  <2> QED
    BY <1>1, <1>2, <1>5, <2>1, <2>2
<1> QED
  BY <1>3, <1>4, <1>5, NewFromArrayType

\* DESTROY deletes an FSM with the fingerprint given, or finds none; the
\* pointer to the encoder is cleared when the fingerprint is a Sentry's.
LEMMA DestroyCases ==
    ASSUME TypeOK, NEW par \in Params, DestroyFsm(par)
    PROVE  /\ fsmDelay' = fsmDelay
           /\ m_encoder' = IF par.id = "FSM_SENTRY" THEN NULL ELSE m_encoder
           /\ \/ UNCHANGED <<array, shiftedFrom>>
              \/ \E k \in Live : m_fsmv[k].fp = par /\ Erased(k)
<1>1. /\ fsmDelay' = fsmDelay
      /\ m_encoder' = IF par.id = "FSM_SENTRY" THEN NULL ELSE m_encoder
  BY DEF DestroyFsm
<1>2. PICK k \in Slots : GetIndex(par, k) /\ Erase(k)
  BY DEF DestroyFsm
<1>3. CASE k \in Live
  <2>1. k # MaxFsm - 1
    BY <1>3, SizeAssumption DEF Live, TypeOK, Slots
  <2>2. m_fsmv[k].fp = par
    BY <1>2, <2>1 DEF GetIndex
  <2> QED
    BY <1>1, <1>2, <1>3, <2>2 DEF Erase, Erased
<1>4. CASE k \notin Live
  BY <1>1, <1>2, <1>4 DEF Erase
<1> QED
  BY <1>3, <1>4

\* A message in the serial buffer is one of these.
LEMMA CallbackCases ==
    ASSUME TypeOK, SerialCallback
    PROVE  /\ rx' \in Seq(HostMessages)
           /\ UNCHANGED <<pc, i, now, passTicks>>
           /\ \/ \E par \in Params :
                    /\ CreateFsm(par)
                    /\ HonestHost /\ par.id = "FSM_SENTRY" => par \in Fingerprints
              \/ \E par \in Params : DestroyFsm(par)
              \/ UNCHANGED <<array, fsmDelay, m_encoder, shiftedFrom>>
              \/ \E m \in FsmMsgs : Dispatch(m)
<1> DEFINE m == Head(rx)
<1>1. m \in HostMessages /\ rx' \in Seq(HostMessages)
  BY DEF SerialCallback, TypeOK
<1>2. m \in MasterMsgs \/ m \in FsmMsgs
  BY <1>1, HostAssumption
<1>3. UNCHANGED <<pc, i, now, passTicks>>
  BY DEF SerialCallback
<1>4. CASE m.dst = "FSM_MASTER"
  <2>1. m \in MasterMsgs
    BY <1>2, <1>4 DEF FsmMsgs
  <2>2. Message(m)
    BY <1>4 DEF SerialCallback
  <2>3. CASE m.op = "CREATE" /\ CreateFsm(m.par)
    <3>1. m.par \in Params
      BY <2>1, <2>3 DEF MasterMsgs
    <3>2. HonestHost /\ m.par.id = "FSM_SENTRY" => m.par \in Fingerprints
      BY <1>1, <1>4, <2>3 DEF HonestHost
    <3> QED
      BY <1>1, <1>3, <2>3, <3>1, <3>2
  <2>4. CASE m.op = "DESTROY" /\ DestroyFsm(m.par)
    <3>1. m.par \in Params
      BY <2>1, <2>4 DEF MasterMsgs
    <3> QED
      BY <1>1, <1>3, <2>4, <3>1
  <2>5. CASE m.op = "LIST" /\ ListFsms
    BY <1>1, <1>3, <2>5 DEF ListFsms
  <2>6. CASE UNCHANGED <<array, fsmDelay, m_encoder, shiftedFrom>>
    BY <1>1, <1>3, <2>6
  <2> QED
    BY <2>2, <2>3, <2>4, <2>5, <2>6 DEF Message
<1>5. CASE m.dst # "FSM_MASTER"
  <2>1. m \in FsmMsgs
    BY <1>2, <1>5 DEF MasterMsgs
  <2>2. Dispatch(m)
    BY <1>5 DEF SerialCallback
  <2> QED
    BY <1>1, <1>3, <2>1, <2>2
<1> QED
  BY <1>4, <1>5

-----------------------------------------------------------------------------
(* Type correctness *)

LEMMA TypeInit ==
    ASSUME Init
    PROVE  TypeOK
<1>1. ASSUME NEW j \in Slots, j < Len(BootFsms)
      PROVE  New(BootFsms[j + 1], NULL, 0) \in Objects
  <2>1. BootFsms[j + 1] \in Fingerprints
    BY <1>1, BootAssumption DEF Slots
  <2> QED
    BY <2>1 DEF New, Objects
<1>2. Len(BootFsms) \in Slots
  BY BootAssumption, SizeAssumption DEF Slots
<1>3. m_fsmv \in [Slots -> Objects \cup {NULL}]
  BY <1>1 DEF Init
<1>4. \A j \in Live : j \in Slots /\ j < Len(BootFsms)
  BY <1>2, SizeAssumption DEF Init, Live, Slots
<1>5. \A j \in Live : m_fsmv[j] \in Objects
  BY <1>1, <1>4 DEF Init
<1>6. /\ fsmDelay \in [Slots -> Time] /\ now \in Time
      /\ i \in 0 .. MaxFsm /\ passTicks \in 0 .. PassBudget /\ shiftedFrom \in 0 .. MaxFsm
  BY SizeAssumption DEF Init, Time
<1>7. rx \in Seq(HostMessages) /\ heap \subseteq Addr
  BY DEF Init
<1> QED
  BY <1>2, <1>3, <1>5, <1>6, <1>7 DEF Init, TypeOK

LEMMA StoredType ==
    ASSUME TypeOK, NEW f \in Objects, f.addr \in Addr \cup {NULL}, Stored(f)
    PROVE  /\ m_fsmv' \in [Slots -> Objects \cup {NULL}]
           /\ m_size' \in Slots
           /\ \A j \in Live' : m_fsmv'[j] \in Objects
           /\ heap' \subseteq Addr
           /\ shiftedFrom' \in 0 .. MaxFsm
<1>1. m_size \in Slots /\ m_size' = IF m_size + 1 = MaxFsm THEN 0 ELSE m_size + 1
  BY SizeStep DEF TypeOK, Stored
<1>2. m_size' \in Slots /\ \A j \in Live' : j \in Live \/ j = m_size
  BY <1>1, SizeAssumption DEF Live, Slots
<1>3. \A j \in Live : j \in Slots /\ j # m_size
  BY <1>1, SizeAssumption DEF Live, Slots
<1>4. m_fsmv' \in [Slots -> Objects \cup {NULL}]
  BY <1>1 DEF TypeOK, Stored
<1>5. \A j \in Live' : m_fsmv'[j] \in Objects
  BY <1>1, <1>2, <1>3 DEF TypeOK, Stored
<1>6. heap' \subseteq Addr /\ shiftedFrom' \in 0 .. MaxFsm
  BY SizeAssumption DEF TypeOK, Stored
<1> QED
  BY <1>2, <1>4, <1>5, <1>6

LEMMA ErasedType ==
    ASSUME TypeOK, NEW k \in Live, Erased(k)
    PROVE  /\ m_fsmv' \in [Slots -> Objects \cup {NULL}]
           /\ m_size' \in Slots
           /\ \A j \in Live' : m_fsmv'[j] = m_fsmv[IF j < k THEN j ELSE j + 1]
           /\ \A j \in Live' : (IF j < k THEN j ELSE j + 1) \in Live
           /\ \A j \in Live' : m_fsmv'[j] \in Objects
           /\ heap' \subseteq Addr
           /\ shiftedFrom' \in 0 .. MaxFsm
<1>1. m_size' \in Slots
  BY SizeAssumption DEF TypeOK, Erased, Live, Slots
<1>2. ASSUME NEW j \in Slots
      PROVE  Shifted(k)[j] \in Objects \cup {NULL}
  <2>1. CASE j \in k .. m_size - 2
    <3>1. j + 1 \in Live
      BY <2>1 DEF Live, TypeOK, Slots
    <3> QED
      BY <2>1, <3>1 DEF Shifted, TypeOK
  <2>2. CASE j \notin k .. m_size - 2
    BY <2>2 DEF Shifted, TypeOK
  <2> QED
    BY <2>1, <2>2
<1>3. m_fsmv' \in [Slots -> Objects \cup {NULL}]
  BY <1>2 DEF Erased, Shifted
<1>4. ASSUME NEW j \in Live'
      PROVE  /\ m_fsmv'[j] = m_fsmv[IF j < k THEN j ELSE j + 1]
             /\ (IF j < k THEN j ELSE j + 1) \in Live
  BY SizeAssumption DEF Erased, Shifted, Live, TypeOK, Slots
<1>5. heap' \subseteq Addr /\ shiftedFrom' \in 0 .. MaxFsm
  <2>1. k \in 0 .. MaxFsm
    BY SizeAssumption DEF TypeOK, Live, Slots
  <2> QED
    BY <2>1 DEF Erased, TypeOK
<1> QED
  BY <1>1, <1>3, <1>4, <1>5 DEF TypeOK

LEMMA DispatchType ==
    ASSUME TypeOK, NEW m, Dispatch(m)
    PROVE  /\ m_fsmv' \in [Slots -> Objects \cup {NULL}]
           /\ UNCHANGED <<m_size, heap, m_encoder, shiftedFrom>>
           /\ \A j \in Live :
                /\ m_fsmv'[j] \in Objects
                /\ m_fsmv'[j].fp = m_fsmv[j].fp /\ m_fsmv'[j].addr = m_fsmv[j].addr
                /\ \/ m_fsmv'[j] = m_fsmv[j] /\ fsmDelay'[j] = fsmDelay[j]
                   \/ \E d \in Delays : m_fsmv'[j].due = now + d /\ fsmDelay'[j] = ULong(d + now)
           /\ \A j \in Slots \ Live : m_fsmv'[j] = m_fsmv[j] /\ fsmDelay'[j] = fsmDelay[j]
           /\ fsmDelay' \in [Slots -> Time]
<1> DEFINE Woken == {j \in Live : Wakes(m_fsmv[j], m)}
           d(j) == StepDelay(Messaged(m_fsmv[j], m))
<1>1. /\ m_fsmv' = [j \in Slots |-> IF j \in Woken
                                   THEN Stepped(Messaged(m_fsmv[j], m), now)
                                   ELSE m_fsmv[j]]
      /\ fsmDelay' = [j \in Slots |-> IF j \in Woken THEN ULong(d(j) + now)
                                     ELSE fsmDelay[j]]
      /\ UNCHANGED <<m_size, heap, m_encoder, shiftedFrom>>
  BY DEF Dispatch
<1>2. Live \subseteq Slots /\ now \in Nat /\ Woken \subseteq Live
  BY SizeAssumption DEF Live, Slots, TypeOK, Time
<1>3. ASSUME NEW j \in Woken
      PROVE  /\ m_fsmv'[j] \in Objects
             /\ m_fsmv'[j].fp = m_fsmv[j].fp /\ m_fsmv'[j].addr = m_fsmv[j].addr
             /\ d(j) \in Delays
             /\ m_fsmv'[j].due = now + d(j)
             /\ fsmDelay'[j] = ULong(d(j) + now)
             /\ fsmDelay'[j] \in Time
  <2>1. m_fsmv[j] \in Objects /\ j \in Slots
    BY <1>2 DEF TypeOK
  <2>2. m_fsmv'[j] = Stepped(Messaged(m_fsmv[j], m), now) /\ fsmDelay'[j] = ULong(d(j) + now)
    BY <1>1, <2>1
  <2>3. d(j) \in Nat /\ d(j) \in Delays
    BY <2>1, WokenType, <1>2
  <2>4. ULong(d(j) + now) \in Time
    BY <2>3, <1>2, ULongBound
  <2> QED
    BY <1>2, <2>1, <2>2, <2>3, <2>4, WokenType
<1>4. ASSUME NEW j \in Slots \ Woken
      PROVE  m_fsmv'[j] = m_fsmv[j] /\ fsmDelay'[j] = fsmDelay[j]
  BY <1>1
<1> HIDE DEF Woken, d
<1>5. \A j \in Slots : m_fsmv'[j] \in Objects \cup {NULL} /\ fsmDelay'[j] \in Time
  BY <1>3, <1>4 DEF TypeOK
<1>6. m_fsmv' \in [Slots -> Objects \cup {NULL}] /\ fsmDelay' \in [Slots -> Time]
  BY <1>1, <1>5
<1>7. ASSUME NEW j \in Live
      PROVE  /\ m_fsmv'[j] \in Objects
             /\ m_fsmv'[j].fp = m_fsmv[j].fp /\ m_fsmv'[j].addr = m_fsmv[j].addr
             /\ \/ m_fsmv'[j] = m_fsmv[j] /\ fsmDelay'[j] = fsmDelay[j]
                \/ \E e \in Delays : m_fsmv'[j].due = now + e /\ fsmDelay'[j] = ULong(e + now)
  <2>1. CASE j \in Woken
    BY <1>3, <2>1
  <2>2. CASE j \notin Woken
    BY <1>2, <1>4, <2>2 DEF TypeOK
  <2> QED
    BY <2>1, <2>2
<1> QED
  BY <1>1, <1>2, <1>4, <1>6, <1>7

LEMMA StepType ==
    ASSUME TypeOK, StepFsm
    PROVE  /\ i \in Live /\ i' = i + 1 /\ i' \in 0 .. MaxFsm
           /\ UNCHANGED <<m_size, heap, m_encoder, pc, rx, now, passTicks, shiftedFrom>>
           /\ m_fsmv' \in [Slots -> Objects \cup {NULL}]
           /\ m_fsmv'[i] \in Objects
           /\ m_fsmv'[i].fp = m_fsmv[i].fp /\ m_fsmv'[i].addr = m_fsmv[i].addr
           /\ \A j \in Slots \ {i} : m_fsmv'[j] = m_fsmv[j] /\ fsmDelay'[j] = fsmDelay[j]
           /\ fsmDelay' \in [Slots -> Time]
           /\ \/ /\ ~Due(i) /\ UNCHANGED <<m_fsmv, fsmDelay>>
              \/ /\ Due(i)
                 /\ \E d \in Delays :
                      m_fsmv'[i].due = now + d /\ fsmDelay'[i] = ULong(d + now)
<1> DEFINE d == StepDelay(m_fsmv[i])
<1>1. i \in Live /\ i \in Slots /\ i' = i + 1 /\ i' \in 0 .. MaxFsm
  BY SizeAssumption DEF StepFsm, TypeOK, Live, Slots
<1>2. UNCHANGED <<m_size, heap, m_encoder, pc, rx, now, passTicks, shiftedFrom>>
  BY DEF StepFsm
<1>3. m_fsmv[i] \in Objects /\ now \in Nat
  BY <1>1, SizeAssumption DEF TypeOK, Time
<1>4. CASE Due(i)
  <2>1. /\ m_fsmv' = [m_fsmv EXCEPT ![i] = Stepped(m_fsmv[i], now)]
        /\ fsmDelay' = [fsmDelay EXCEPT ![i] = ULong(d + now)]
    BY <1>4 DEF StepFsm
  <2>2. d \in Nat /\ d \in Delays
    BY <1>3, StepDelayType
  <2>3. ULong(d + now) \in Time
    BY <1>3, <2>2, ULongBound
  <2>4. /\ Stepped(m_fsmv[i], now) \in Objects
        /\ Stepped(m_fsmv[i], now).fp = m_fsmv[i].fp
        /\ Stepped(m_fsmv[i], now).addr = m_fsmv[i].addr
        /\ Stepped(m_fsmv[i], now).due = now + d
    BY <1>3, SteppedType
  <2> HIDE DEF d
  <2>5. m_fsmv' \in [Slots -> Objects \cup {NULL}] /\ fsmDelay' \in [Slots -> Time]
    BY <1>1, <2>1, <2>3, <2>4 DEF TypeOK
  <2>6. m_fsmv'[i] = Stepped(m_fsmv[i], now) /\ fsmDelay'[i] = ULong(d + now)
    BY <1>1, <2>1 DEF TypeOK
  <2>7. \A j \in Slots \ {i} : m_fsmv'[j] = m_fsmv[j] /\ fsmDelay'[j] = fsmDelay[j]
    BY <1>1, <2>1 DEF TypeOK
  <2> QED
    BY <1>1, <1>2, <1>4, <2>2, <2>4, <2>5, <2>6, <2>7
<1>5. CASE ~Due(i)
  <2>1. UNCHANGED <<m_fsmv, fsmDelay>>
    BY <1>5 DEF StepFsm
  <2> QED
    BY <1>1, <1>2, <1>3, <1>5, <2>1 DEF TypeOK
<1> QED
  BY <1>4, <1>5

LEMMA TickType ==
    ASSUME TypeOK, Tick
    PROVE  /\ now' \in Time /\ now' <= now + 1
           /\ passTicks' = passTicks + 1 /\ passTicks' \in 0 .. PassBudget
<1>1. now + 1 \in Nat /\ passTicks + 1 \in 0 .. PassBudget
  BY SizeAssumption DEF TypeOK, Tick, Time
<1> QED
  BY <1>1, ULongBound DEF Tick

LEMMA TypeStep ==
    ASSUME TypeOK, [Next]_vars
    PROVE  TypeOK'
<1>1. CASE SerialCallback
  <2>1. /\ rx' \in Seq(HostMessages) /\ pc' \in {"serial", "step"} /\ i' \in 0 .. MaxFsm
        /\ now' \in Time /\ passTicks' \in 0 .. PassBudget
    BY <1>1, CallbackCases DEF TypeOK
  <2>2. ASSUME NEW par \in Params, CreateFsm(par)
        PROVE  TypeOK'
    <3>1. CASE /\ UNCHANGED <<array, shiftedFrom>>
               /\ m_encoder' = IF par.id # "FSM_SENTRY" THEN m_encoder ELSE "wild"
      <4>1. m_encoder' \in Addr \cup {NULL, "wild"}
        BY <3>1 DEF TypeOK
      <4>2. fsmDelay' \in [Slots -> Time]
        BY <2>2 DEF TypeOK, CreateFsm
      <4>3. UNCHANGED <<m_fsmv, m_size, heap, shiftedFrom>>
        BY <3>1 DEF array
      <4> QED
        BY <2>1, <4>1, <4>2, <4>3 DEF TypeOK, Live
    <3>2. ASSUME NEW f \in Objects, Stored(f),
                 (f.addr \in Addr /\ m_encoder' = f.addr) \/ (f.addr = NULL /\ m_encoder' = m_encoder)
          PROVE  TypeOK'
      <4>1. m_encoder' \in Addr \cup {NULL, "wild"}
        BY <3>2 DEF TypeOK
      <4>2. fsmDelay' \in [Slots -> Time]
        BY <2>2 DEF TypeOK, CreateFsm
      <4> QED
        BY <2>1, <3>2, <4>1, <4>2, StoredType DEF TypeOK
    <3>3. \/ /\ UNCHANGED <<array, shiftedFrom>>
             /\ m_encoder' = IF par.id # "FSM_SENTRY" THEN m_encoder ELSE "wild"
          \/ \E f \in Objects :
               /\ Stored(f)
               /\ (f.addr \in Addr /\ m_encoder' = f.addr) \/ (f.addr = NULL /\ m_encoder' = m_encoder)
      BY <2>2, CreateCases
    <3> QED
      BY <3>1, <3>2, <3>3
  <2>3. ASSUME NEW par \in Params, DestroyFsm(par)
        PROVE  TypeOK'
    <3>1. m_encoder' \in Addr \cup {NULL, "wild"} /\ fsmDelay' \in [Slots -> Time]
      BY <2>3, DestroyCases DEF TypeOK
    <3>2. CASE UNCHANGED <<array, shiftedFrom>>
      BY <2>1, <3>1, <3>2 DEF TypeOK, array, Live
    <3>3. ASSUME NEW k \in Live, Erased(k)
          PROVE  TypeOK'
      BY <2>1, <3>1, <3>3, ErasedType DEF TypeOK
    <3> QED
      BY <2>3, <3>2, <3>3, DestroyCases
  <2>4. CASE UNCHANGED <<array, fsmDelay, m_encoder, shiftedFrom>>
    BY <2>1, <2>4 DEF TypeOK, array, Live
  <2>5. ASSUME NEW m \in FsmMsgs, Dispatch(m)
        PROVE  TypeOK'
    BY <2>1, <2>5, DispatchType DEF TypeOK, Live
  <2> QED
    BY <1>1, <2>2, <2>3, <2>4, <2>5, CallbackCases
<1>2. CASE SerialIdle
  BY <1>2, SizeAssumption DEF SerialIdle, TypeOK, array, Live
<1>3. CASE StepFsm
  <2>1. \A j \in Live : j \in Slots
    BY SizeAssumption DEF TypeOK, Live, Slots
  <2>2. Live' = Live /\ \A j \in Live : m_fsmv'[j] \in Objects
    BY <1>3, <2>1, StepType DEF TypeOK, Live
  <2> QED
    BY <1>3, <2>2, StepType DEF TypeOK
<1>4. CASE PollEncoder
  BY <1>4, SizeAssumption DEF PollEncoder, TypeOK, array, Live
<1>5. CASE Tick
  <2>1. UNCHANGED <<array, fsmDelay, m_encoder, pc, i, rx, shiftedFrom>>
    BY <1>5 DEF Tick
  <2> QED
    BY <1>5, <2>1, TickType DEF TypeOK, array, Live
<1>6. CASE HostSend
  <2>1. rx' \in Seq(HostMessages)
    BY <1>6 DEF HostSend, TypeOK
  <2>2. UNCHANGED <<m_fsmv, m_size, heap, fsmDelay, m_encoder, pc, i, now, passTicks, shiftedFrom>>
    BY <1>6 DEF HostSend, array
  <2> QED
    BY <2>1, <2>2 DEF TypeOK, Live
<1>7. CASE UNCHANGED vars
  BY <1>7 DEF vars, TypeOK, Live
<1> QED
  BY <1>1, <1>2, <1>3, <1>4, <1>5, <1>6, <1>7 DEF Next, Spin

\* Whatever the host sends and however large the array: every slot below
\* m_size holds an FSM, m_size stays within its uint8_t, the loop index never
\* leaves the array, deadlines stay within an unsigned long.
THEOREM TypeCorrect == Spec => []TypeOK
<1> QED
  BY TypeInit, TypeStep, PTL DEF Spec

-----------------------------------------------------------------------------
(* The Sentries and the encoder *)

\* Only Sentries carry an address.
SentryAddrs ==
    \A j \in Live : m_fsmv[j].fp.id # "FSM_SENTRY" => m_fsmv[j].addr = NULL

EncoderInv == TypeOK /\ SentryAddrs /\ EncoderSafe

LEMMA EncoderInit ==
    ASSUME Init
    PROVE  EncoderInv
<1>1. \A j \in Live : m_fsmv[j].addr = NULL
  <2>1. \A j \in Live : j \in Slots /\ j < Len(BootFsms)
    BY BootAssumption, SizeAssumption DEF Init, Live, Slots
  <2> QED
    BY <2>1 DEF Init, New
<1> QED
  BY <1>1, TypeInit DEF EncoderInv, SentryAddrs, EncoderSafe, Init

LEMMA EncoderStep ==
    ASSUME EncoderInv, HonestHost, [Next]_vars
    PROVE  EncoderInv'
<1> USE DEF EncoderInv
<1>1. TypeOK'
  BY TypeStep
<1>2. CASE SerialCallback
  <2>1. ASSUME NEW par \in Params, CreateFsm(par),
               par.id = "FSM_SENTRY" => par \in Fingerprints
        PROVE  SentryAddrs' /\ EncoderSafe'
    <3>1. CASE UNCHANGED <<array, shiftedFrom>> /\ par.id # "FSM_SENTRY" /\ m_encoder' = m_encoder
      BY <3>1 DEF SentryAddrs, EncoderSafe, Live, array
    <3>2. ASSUME NEW f \in Objects, Stored(f),
                 \/ /\ f.fp.id = "FSM_SENTRY"
                    /\ f.addr \in Addr \ heap /\ m_encoder' = f.addr
                 \/ /\ f.fp.id # "FSM_SENTRY"
                    /\ f.addr = NULL /\ m_encoder' = m_encoder
          PROVE  SentryAddrs' /\ EncoderSafe'
      <4>1. m_size \in Slots /\ m_size' = IF m_size + 1 = MaxFsm THEN 0 ELSE m_size + 1
        BY <3>2, SizeStep DEF TypeOK, Stored
      <4>2. \A j \in Live' : (j \in Live /\ j # m_size) \/ j = m_size
        BY <4>1, SizeAssumption DEF Live, Slots
      <4>3. Live \subseteq Slots
        BY <4>1, SizeAssumption DEF Live, Slots
      <4>4. m_fsmv' = [m_fsmv EXCEPT ![m_size] = f]
        BY <3>2 DEF Stored
      <4>5. SentryAddrs'
        BY <3>2, <4>1, <4>2, <4>3, <4>4 DEF SentryAddrs, TypeOK
      <4>6. EncoderSafe'
        BY <3>2, NullAssumption DEF EncoderSafe, Stored
      <4> QED
        BY <4>5, <4>6
    <3> QED
      BY <2>1, <3>1, <3>2, CreateCases
  <2>2. ASSUME NEW par \in Params, DestroyFsm(par)
        PROVE  SentryAddrs' /\ EncoderSafe'
    <3>1. CASE UNCHANGED <<array, shiftedFrom>>
      BY <2>2, <3>1, DestroyCases DEF SentryAddrs, EncoderSafe, Live, array
    <3>2. ASSUME NEW k \in Live, m_fsmv[k].fp = par, Erased(k)
          PROVE  SentryAddrs' /\ EncoderSafe'
      <4>1. SentryAddrs'
        BY <3>2, ErasedType DEF SentryAddrs
      <4>2. CASE par.id = "FSM_SENTRY"
        BY <2>2, <4>1, <4>2, DestroyCases DEF EncoderSafe
      <4>3. CASE par.id # "FSM_SENTRY"
        <5>1. m_encoder' = m_encoder /\ heap' = heap \ {NULL}
          BY <2>2, <3>2, <4>3, DestroyCases DEF SentryAddrs, Erased
        <5> QED
          BY <4>1, <5>1 DEF EncoderSafe
      <4> QED
        BY <4>2, <4>3
    <3> QED
      BY <2>2, <3>1, <3>2, DestroyCases
  <2>3. ASSUME UNCHANGED <<array, fsmDelay, m_encoder, shiftedFrom>>
        PROVE  SentryAddrs' /\ EncoderSafe'
    BY <2>3 DEF SentryAddrs, EncoderSafe, Live, array
  <2>4. ASSUME NEW m \in FsmMsgs, Dispatch(m)
        PROVE  SentryAddrs' /\ EncoderSafe'
    BY <2>4, DispatchType DEF SentryAddrs, EncoderSafe, Live
  <2>5. \/ \E par \in Params : CreateFsm(par) /\ (par.id = "FSM_SENTRY" => par \in Fingerprints)
        \/ \E par \in Params : DestroyFsm(par)
        \/ UNCHANGED <<array, fsmDelay, m_encoder, shiftedFrom>>
        \/ \E m \in FsmMsgs : Dispatch(m)
    BY <1>2, CallbackCases
  <2>6. SentryAddrs' /\ EncoderSafe'
    BY <2>1, <2>2, <2>3, <2>4, <2>5
  <2> QED
    BY <1>1, <2>6
<1>3. CASE StepFsm
  <2>1. \A j \in Live : m_fsmv'[j].fp = m_fsmv[j].fp /\ m_fsmv'[j].addr = m_fsmv[j].addr
    <3>1. Live \subseteq Slots
      BY SizeAssumption DEF TypeOK, Live, Slots
    <3>2. /\ m_fsmv'[i].fp = m_fsmv[i].fp /\ m_fsmv'[i].addr = m_fsmv[i].addr
          /\ \A j \in Slots \ {i} : m_fsmv'[j] = m_fsmv[j]
      BY <1>3, StepType
    <3> QED
      BY <3>1, <3>2
  <2> QED
    BY <1>1, <1>3, <2>1, StepType DEF SentryAddrs, EncoderSafe, Live
<1>4. CASE UNCHANGED <<array, m_encoder>>
  BY <1>1, <1>4 DEF SentryAddrs, EncoderSafe, Live, array
<1> QED
  BY <1>2, <1>3, <1>4 DEF Next, Spin, SerialIdle, PollEncoder, Tick, HostSend, vars, array

\* The pointer Spin() dereferences after every pass never dangles, for any
\* sequence of messages from a host that only creates Sentries whose parameters
\* validate (MecanumMaster.cpp:251-257 does not check; see MasterInvalidSentry).
THEOREM EncoderSafety ==
    ASSUME HonestHost
    PROVE  Spec => []EncoderSafe
<1>1. Init => EncoderInv
  BY EncoderInit
<1>2. EncoderInv /\ [Next]_vars => EncoderInv'
  BY EncoderStep
<1>3. EncoderInv => EncoderSafe
  BY DEF EncoderInv
<1> QED
  BY <1>1, <1>2, <1>3, PTL DEF Spec

OwnedInv == TypeOK /\ ArrayOwnsItsSentries

LEMMA OwnedStep ==
    ASSUME OwnedInv, [Next]_vars
    PROVE  OwnedInv'
<1> USE DEF OwnedInv
<1>1. TypeOK'
  BY TypeStep
<1>2. CASE SerialCallback
  <2>1. ASSUME NEW par \in Params, CreateFsm(par)
        PROVE  ArrayOwnsItsSentries'
    <3>1. CASE UNCHANGED <<array, shiftedFrom>>
      BY <3>1 DEF ArrayOwnsItsSentries, Live, array
    <3>2. ASSUME NEW f \in Objects, Stored(f), f.addr \in Addr \ heap \/ f.addr = NULL
          PROVE  ArrayOwnsItsSentries'
      <4>1. m_size \in Slots /\ m_size' = IF m_size + 1 = MaxFsm THEN 0 ELSE m_size + 1
        BY <3>2, SizeStep DEF TypeOK, Stored
      <4>2. \A j \in Live' : (j \in Live /\ j # m_size) \/ j = m_size
        BY <4>1, SizeAssumption DEF Live, Slots
      <4>3. Live \subseteq Slots
        BY <4>1, SizeAssumption DEF Live, Slots
      <4>4. m_fsmv' = [m_fsmv EXCEPT ![m_size] = f] /\ heap' = heap \cup ({f.addr} \ {NULL})
        BY <3>2 DEF Stored
      <4>5. m_fsmv'[m_size] = f /\ \A j \in Live : j # m_size => m_fsmv'[j] = m_fsmv[j]
        BY <4>1, <4>3, <4>4 DEF TypeOK
      <4> QED
        BY <3>2, <4>2, <4>4, <4>5 DEF ArrayOwnsItsSentries
    <3>3. \/ UNCHANGED <<array, shiftedFrom>>
          \/ \E f \in Objects : Stored(f) /\ (f.addr \in Addr \ heap \/ f.addr = NULL)
      BY <2>1, CreateCases
    <3> QED
      BY <3>1, <3>2, <3>3
  <2>2. ASSUME NEW par \in Params, DestroyFsm(par)
        PROVE  ArrayOwnsItsSentries'
    <3>1. CASE UNCHANGED <<array, shiftedFrom>>
      BY <3>1 DEF ArrayOwnsItsSentries, Live, array
    <3>2. ASSUME NEW k \in Live, Erased(k)
          PROVE  ArrayOwnsItsSentries'
      <4> DEFINE from(j) == IF j < k THEN j ELSE j + 1
      <4>1. \A j \in Live' : m_fsmv'[j] = m_fsmv[from(j)] /\ from(j) \in Live
        BY <3>2, ErasedType
      <4>2. \A j \in Live' : from(j) # k
        BY <3>2 DEF Live, TypeOK, Slots
      <4>3. \A j, l \in Live' : from(j) = from(l) => j = l
        BY <3>2 DEF Live, TypeOK, Slots
      <4> HIDE DEF from
      <4>4. ASSUME NEW j \in Live', NEW l \in Live', m_fsmv'[j].addr # NULL
            PROVE  /\ m_fsmv'[j].addr \in heap'
                   /\ m_fsmv'[j].addr = m_fsmv'[l].addr => j = l
        <5>1. m_fsmv[from(j)].addr \in heap /\ m_fsmv[from(j)].addr # m_fsmv[k].addr
          BY <3>2, <4>1, <4>2, <4>4 DEF ArrayOwnsItsSentries
        <5>2. m_fsmv[from(j)].addr = m_fsmv[from(l)].addr => from(j) = from(l)
          BY <4>1, <4>4 DEF ArrayOwnsItsSentries
        <5> QED
          BY <3>2, <4>1, <4>3, <5>1, <5>2 DEF Erased
      <4> QED
        BY <4>4 DEF ArrayOwnsItsSentries
    <3> QED
      BY <2>2, <3>1, <3>2, DestroyCases
  <2>3. ASSUME UNCHANGED <<array, fsmDelay, m_encoder, shiftedFrom>>
        PROVE  ArrayOwnsItsSentries'
    BY <2>3 DEF ArrayOwnsItsSentries, Live, array
  <2>4. ASSUME NEW m \in FsmMsgs, Dispatch(m)
        PROVE  ArrayOwnsItsSentries'
    BY <2>4, DispatchType DEF ArrayOwnsItsSentries, Live
  <2>5. \/ \E par \in Params : CreateFsm(par)
        \/ \E par \in Params : DestroyFsm(par)
        \/ UNCHANGED <<array, fsmDelay, m_encoder, shiftedFrom>>
        \/ \E m \in FsmMsgs : Dispatch(m)
    BY <1>2, CallbackCases
  <2> QED
    BY <1>1, <2>1, <2>2, <2>3, <2>4, <2>5
<1>3. CASE StepFsm
  <2>1. Live \subseteq Slots
    BY SizeAssumption DEF TypeOK, Live, Slots
  <2>2. \A j \in Live : m_fsmv'[j].addr = m_fsmv[j].addr
    BY <1>3, <2>1, StepType
  <2>3. Live' = Live /\ heap' = heap
    BY <1>3, StepType DEF Live
  <2> QED
    BY <1>1, <2>2, <2>3 DEF ArrayOwnsItsSentries
<1>4. CASE UNCHANGED array
  BY <1>1, <1>4 DEF ArrayOwnsItsSentries, Live, array
<1> QED
  BY <1>2, <1>3, <1>4 DEF Next, Spin, SerialIdle, PollEncoder, Tick, HostSend, vars, array

\* No FSM in the array has been deleted and no Sentry is in it twice, for any
\* array size and any sequence of messages: the shift in FSMVector::Erase()
\* (FSMVector.cpp:48-57) neither loses nor duplicates an object.
THEOREM SentriesOwned == Spec => []ArrayOwnsItsSentries
<1>1. ASSUME Init
      PROVE  OwnedInv
  <2>1. \A j \in Live : m_fsmv[j].addr = NULL
    <3>1. \A j \in Live : j \in Slots /\ j < Len(BootFsms)
      BY <1>1, BootAssumption, SizeAssumption DEF Init, Live, Slots
    <3> QED
      BY <1>1, <3>1 DEF Init, New
  <2> QED
    BY <1>1, <2>1, TypeInit DEF OwnedInv, ArrayOwnsItsSentries
<1>2. OwnedInv => ArrayOwnsItsSentries
  BY DEF OwnedInv
<1> QED
  BY <1>1, <1>2, OwnedStep, PTL DEF Spec

-----------------------------------------------------------------------------
(* The schedule *)

\* How late, on top of the ticks of this pass, slot j may be: nothing once the
\* pass has been there, one more pass before.
Grace(j) == IF pc = "step" /\ j < i THEN 0 ELSE PassBudget

\* Below the first slot whose deadline may be another FSM's: no deadline is
\* later than what the FSM asked for, no FSM is late, and the deadlines of free
\* slots have never been written.
SlotInTime(j) ==
    IF j < m_size
    THEN fsmDelay[j] <= m_fsmv[j].due /\ now <= m_fsmv[j].due + passTicks + Grace(j)
    ELSE fsmDelay[j] = 0

InTime == \A j \in Slots : j < shiftedFrom => SlotInTime(j)

PunctualInv == TypeOK /\ InTime

\* The constants, and what TypeOK says of numbers.
LEMMA Numbers ==
    ASSUME TypeOK
    PROVE  /\ MaxFsm \in Nat /\ MaxFsm > 0 /\ PassBudget \in Nat /\ Horizon \in Nat
           /\ m_size \in Nat /\ m_size < MaxFsm /\ i \in Nat
           /\ now \in Nat /\ passTicks \in Nat /\ passTicks <= PassBudget
           /\ shiftedFrom \in Nat
           /\ \A j \in Slots : j \in Nat /\ fsmDelay[j] \in Nat
           /\ \A j \in Live : m_fsmv[j].due \in Nat
           /\ \A j \in Slots : j \in Live <=> j < m_size
           /\ Live \subseteq Slots
           /\ \A d \in Delays : d \in Nat /\ ULong(d + now) \in Nat /\ ULong(d + now) <= now + d
<1>1. /\ MaxFsm \in Nat /\ MaxFsm > 0 /\ PassBudget \in Nat /\ Horizon \in Nat
      /\ m_size \in Nat /\ m_size < MaxFsm /\ i \in Nat
      /\ now \in Nat /\ passTicks \in Nat /\ passTicks <= PassBudget
      /\ shiftedFrom \in Nat
  BY SizeAssumption DEF TypeOK, Time, Slots
<1>2. \A j \in Slots : j \in Nat /\ fsmDelay[j] \in Nat
  BY SizeAssumption DEF TypeOK, Time, Slots
<1>3. \A j \in Live : m_fsmv[j].due \in Nat
  BY DEF TypeOK, Objects
<1>4. Live \subseteq Slots /\ \A j \in Slots : j \in Live <=> j < m_size
  BY <1>1 DEF Live, Slots
<1>5. \A d \in Delays : d \in Nat /\ ULong(d + now) \in Nat /\ ULong(d + now) <= now + d
  <2>1. \A d \in Delays : d \in Nat /\ d + now \in Nat
    BY <1>1, DelayAssumption DEF Delays
  <2>2. \A d \in Delays : ULong(d + now) \in Time /\ ULong(d + now) <= d + now
    BY <2>1, ULongBound
  <2> QED
    BY <1>1, <2>1, <2>2, SizeAssumption DEF Time
<1> QED
  BY <1>1, <1>2, <1>3, <1>4, <1>5

\* The same for an FSM that is not touched while the clock stands still.
LEMMA SlotKept ==
    ASSUME NEW j, SlotInTime(j), UNCHANGED <<m_size, fsmDelay[j], m_fsmv[j], now, passTicks, pc, i>>
    PROVE  SlotInTime(j)'
BY DEF SlotInTime, Grace

LEMMA PunctualStep ==
    ASSUME PunctualInv, [Next]_vars
    PROVE  PunctualInv'
<1> USE DEF PunctualInv
<1>1. TypeOK'
  BY TypeStep
<1>2. CASE SerialCallback
  <2>1. UNCHANGED <<pc, i, now, passTicks>>
    BY <1>2, CallbackCases
  <2>2. ASSUME NEW par \in Params, CreateFsm(par)
        PROVE  InTime'
    <3>1. fsmDelay' = fsmDelay
      BY <2>2, CreateCases
    <3>2. CASE UNCHANGED <<array, shiftedFrom>>
      BY <2>1, <3>1, <3>2, SlotKept DEF InTime, array
    <3>3. ASSUME NEW f \in Objects, f.due = now, Stored(f)
          PROVE  InTime'
      <4>1. m_size \in Slots /\ m_size' = IF m_size + 1 = MaxFsm THEN 0 ELSE m_size + 1
        BY <3>3, SizeStep DEF TypeOK, Stored
      <4>2. CASE m_size' = 0
        BY <3>3, <4>2, SizeAssumption DEF InTime, Stored, Slots
      <4>3. CASE m_size' # 0
        <5>1. m_size' = m_size + 1 /\ shiftedFrom' = shiftedFrom
          BY <3>3, <4>1, <4>3 DEF Stored
        <5>2. ASSUME NEW j \in Slots, j < shiftedFrom
              PROVE  SlotInTime(j)'
          <6>1. SlotInTime(j)
            BY <5>2 DEF InTime
          <6>2. CASE j = m_size
            <7>1. m_fsmv'[j].due = now /\ fsmDelay[j] = 0
              BY <3>3, <4>1, <6>1, <6>2, Numbers DEF SlotInTime, Stored, TypeOK
            <7> QED
              BY <2>1, <3>1, <5>1, <6>2, <7>1, Numbers DEF SlotInTime, Grace
          <6>3. CASE j # m_size
            <7>1. m_fsmv'[j] = m_fsmv[j]
              BY <3>3, <6>3 DEF Stored, TypeOK
            <7>2. j < m_size' <=> j < m_size
              BY <5>1, <6>3, Numbers
            <7> QED
              BY <2>1, <3>1, <6>1, <7>1, <7>2 DEF SlotInTime, Grace
          <6> QED
            BY <6>2, <6>3
        <5> QED
          BY <5>1, <5>2 DEF InTime
      <4> QED
        BY <4>2, <4>3
    <3>4. \/ UNCHANGED <<array, shiftedFrom>>
          \/ \E f \in Objects : f.due = now /\ Stored(f)
      BY <2>2, CreateCases
    <3> QED
      BY <3>2, <3>3, <3>4
  <2>3. ASSUME NEW par \in Params, DestroyFsm(par)
        PROVE  InTime'
    <3>1. fsmDelay' = fsmDelay
      BY <2>3, DestroyCases
    <3>2. CASE UNCHANGED <<array, shiftedFrom>>
      BY <2>1, <3>1, <3>2, SlotKept DEF InTime, array
    <3>3. ASSUME NEW k \in Live, Erased(k)
          PROVE  InTime'
      <4>1. ASSUME NEW j \in Slots, j < shiftedFrom'
            PROVE  SlotInTime(j)'
        <5>1. j < k /\ j < shiftedFrom /\ k \in Nat /\ k < m_size /\ m_size' = m_size - 1
          BY <3>3, <4>1, Numbers DEF Erased, Live
        <5>2. m_fsmv'[j] = m_fsmv[j] /\ j < m_size /\ j < m_size'
          BY <3>3, <5>1, Numbers DEF Erased, Shifted
        <5>3. SlotInTime(j)
          BY <5>1 DEF InTime
        <5> QED
          BY <2>1, <3>1, <5>2, <5>3 DEF SlotInTime, Grace
      <4> QED
        BY <4>1 DEF InTime
    <3> QED
      BY <2>3, <3>2, <3>3, DestroyCases
  <2>4. ASSUME UNCHANGED <<array, fsmDelay, m_encoder, shiftedFrom>>
        PROVE  InTime'
    BY <2>1, <2>4, SlotKept DEF InTime, array
  <2>5. ASSUME NEW m \in FsmMsgs, Dispatch(m)
        PROVE  InTime'
    <3>1. UNCHANGED <<m_size, shiftedFrom>>
      BY <2>5, DispatchType
    <3>2. ASSUME NEW j \in Slots, j < shiftedFrom
          PROVE  SlotInTime(j)'
      <4>1. SlotInTime(j)
        BY <3>2 DEF InTime
      <4>2. CASE UNCHANGED <<m_fsmv[j], fsmDelay[j]>>
        BY <2>1, <3>1, <4>1, <4>2, SlotKept
      <4>3. ASSUME j \in Live, NEW d \in Delays,
                   m_fsmv'[j].due = now + d, fsmDelay'[j] = ULong(d + now)
            PROVE  SlotInTime(j)'
        BY <2>1, <3>1, <4>3, Numbers DEF SlotInTime, Grace
      <4> QED
        BY <2>5, <4>2, <4>3, DispatchType
    <3> QED
      BY <3>1, <3>2 DEF InTime
  <2>6. \/ \E par \in Params : CreateFsm(par)
        \/ \E par \in Params : DestroyFsm(par)
        \/ UNCHANGED <<array, fsmDelay, m_encoder, shiftedFrom>>
        \/ \E m \in FsmMsgs : Dispatch(m)
    BY <1>2, CallbackCases
  <2> QED
    BY <1>1, <2>2, <2>3, <2>4, <2>5, <2>6
<1>3. CASE SerialIdle
  <2>1. /\ UNCHANGED <<array, fsmDelay, now, passTicks, shiftedFrom>>
        /\ pc = "serial" /\ i' = 0
    BY <1>3 DEF SerialIdle
  <2>2. \A j \in Slots : Grace(j)' = PassBudget /\ Grace(j) = PassBudget
    BY <2>1, Numbers DEF Grace
  <2> QED
    BY <1>1, <2>1, <2>2 DEF InTime, SlotInTime, array
<1>4. CASE StepFsm
  <2>1. /\ UNCHANGED <<m_size, pc, now, passTicks, shiftedFrom>>
        /\ i \in Live /\ i' = i + 1 /\ pc = "step"
    BY <1>4, StepType DEF StepFsm
  <2>2. ASSUME NEW j \in Slots, j < shiftedFrom
        PROVE  SlotInTime(j)'
    <3>1. SlotInTime(j)
      BY <2>2 DEF InTime
    <3>2. CASE j # i
      <4>1. m_fsmv'[j] = m_fsmv[j] /\ fsmDelay'[j] = fsmDelay[j]
        BY <1>4, <3>2, StepType
      <4>2. j < i' <=> j < i
        BY <2>1, <3>2, Numbers
      <4> QED
        BY <2>1, <3>1, <4>1, <4>2 DEF SlotInTime, Grace
    <3>3. CASE j = i /\ ~Due(i)
      <4>1. UNCHANGED <<m_fsmv, fsmDelay>>
        BY <1>4, <3>3, StepType
      <4>2. fsmDelay[j] > now /\ fsmDelay[j] <= m_fsmv[j].due
        BY <2>1, <3>1, <3>3, Numbers DEF SlotInTime, Due
      <4> QED
        BY <2>1, <3>3, <4>1, <4>2, Numbers DEF SlotInTime, Grace
    <3>4. CASE j = i /\ Due(i)
      <4>1. PICK d \in Delays : m_fsmv'[j].due = now + d /\ fsmDelay'[j] = ULong(d + now)
        BY <1>4, <3>4, StepType
      <4> QED
        BY <2>1, <3>4, <4>1, Numbers DEF SlotInTime, Grace
    <3> QED
      BY <3>2, <3>3, <3>4
  <2> QED
    BY <1>1, <2>1, <2>2 DEF InTime
<1>5. CASE PollEncoder
  <2>1. /\ UNCHANGED <<array, fsmDelay, now, shiftedFrom>>
        /\ pc = "step" /\ pc' = "serial" /\ i >= m_size /\ passTicks' = 0
    BY <1>5 DEF PollEncoder
  <2>2. ASSUME NEW j \in Slots, j < shiftedFrom
        PROVE  SlotInTime(j)'
    <3>1. SlotInTime(j) /\ Grace(j)' = PassBudget /\ (j < m_size => Grace(j) = 0)
      BY <2>1, <2>2, Numbers DEF InTime, Grace
    <3> QED
      BY <2>1, <3>1, Numbers DEF SlotInTime, array
  <2> QED
    BY <1>1, <2>1, <2>2 DEF InTime
<1>6. CASE Tick
  <2>1. /\ UNCHANGED <<array, fsmDelay, pc, i, shiftedFrom>>
        /\ now' \in Nat /\ now' <= now + 1 /\ passTicks' = passTicks + 1
    BY <1>6, TickType, SizeAssumption DEF Tick, Time
  <2>2. ASSUME NEW j \in Slots, j < shiftedFrom
        PROVE  SlotInTime(j)'
    <3>1. SlotInTime(j) /\ Grace(j)' = Grace(j) /\ Grace(j) \in Nat
      BY <2>1, <2>2, Numbers DEF InTime, Grace
    <3> QED
      BY <2>1, <3>1, Numbers DEF SlotInTime, array
  <2> QED
    BY <1>1, <2>1, <2>2 DEF InTime
<1>7. CASE HostSend \/ UNCHANGED vars
  BY <1>1, <1>7, SlotKept DEF HostSend, InTime, vars, array
<1> QED
  BY <1>2, <1>3, <1>4, <1>5, <1>6, <1>7 DEF Next, Spin

\* An FSM is stepped at most two passes after the time it asked for, for any
\* delays, any number of FSMs and any traffic, even when a deadline wraps: only
\* Erase() of an FSM before it (MecanumMaster.cpp:275) and the wrap of m_size
\* make it later.  (Once the clock itself has wrapped the bound says nothing
\* until it shows again what it showed before.)
THEOREM Punctuality == Spec => []Punctual
<1>1. ASSUME Init
      PROVE  PunctualInv
  <2>1. TypeOK
    BY <1>1, TypeInit
  <2>2. ASSUME NEW j \in Live
        PROVE  m_fsmv[j].due = 0
    <3>1. j \in Slots /\ j < Len(BootFsms)
      BY <1>1, BootAssumption, SizeAssumption DEF Init, Live, Slots
    <3> QED
      BY <1>1, <3>1 DEF Init, New
  <2>3. now = 0 /\ passTicks = 0 /\ pc = "serial" /\ \A j \in Slots : fsmDelay[j] = 0
    BY <1>1 DEF Init
  <2>4. \A j \in Slots : SlotInTime(j)
    BY <2>1, <2>2, <2>3, Numbers DEF SlotInTime, Grace
  <2> QED
    BY <2>1, <2>4 DEF PunctualInv, InTime
<1>2. ASSUME PunctualInv
      PROVE  Punctual
  <2>1. ASSUME NEW j \in Live, j < shiftedFrom
        PROVE  now <= m_fsmv[j].due + 2 * PassBudget
    <3>1. TypeOK /\ SlotInTime(j) /\ j < m_size
      BY <1>2, <2>1, Numbers DEF PunctualInv, InTime
    <3>2. now <= m_fsmv[j].due + passTicks + PassBudget
      BY <2>1, <3>1, Numbers DEF SlotInTime, Grace
    <3> QED
      BY <2>1, <3>1, <3>2, Numbers
  <2> QED
    BY <2>1 DEF Punctual
<1> QED
  BY <1>1, <1>2, PunctualStep, PTL DEF Spec

\* The clock is read only while no deadline exceeds an unsigned long.
NoWrap == \A d \in Delays : Horizon + d < TimeMod

\* No deadline is earlier than what the FSM asked for, unless that has passed.
NotEarly ==
    \A j \in Live : j < shiftedFrom => m_fsmv[j].due <= now \/ m_fsmv[j].due <= fsmDelay[j]

EarlyInv == TypeOK /\ now <= Horizon /\ NotEarly

LEMMA EarlyStep ==
    ASSUME EarlyInv, NoWrap, [Next]_vars
    PROVE  EarlyInv'
<1> USE DEF EarlyInv
<1>1. TypeOK'
  BY TypeStep
<1>2. \A d \in Delays : d \in Nat /\ ULong(d + now) = now + d
  <2>1. \A d \in Delays : d \in Nat /\ d + now \in Nat /\ d + now < TimeMod
    BY Numbers, SizeAssumption DEF NoWrap
  <2> QED
    BY <2>1, ULongExact, Numbers
<1>3. CASE SerialCallback
  <2>1. now' = now
    BY <1>3, CallbackCases
  <2>2. ASSUME NEW par \in Params, CreateFsm(par)
        PROVE  NotEarly'
    <3>1. fsmDelay' = fsmDelay
      BY <2>2, CreateCases
    <3>2. CASE UNCHANGED <<array, shiftedFrom>>
      BY <2>1, <3>1, <3>2 DEF NotEarly, array, Live
    <3>3. ASSUME NEW f \in Objects, f.due = now, Stored(f)
          PROVE  NotEarly'
      <4>1. m_size \in Slots /\ m_size' = IF m_size + 1 = MaxFsm THEN 0 ELSE m_size + 1
        BY <3>3, SizeStep DEF TypeOK, Stored
      <4>2. \A j \in Live' : (j \in Live /\ j # m_size) \/ j = m_size
        BY <4>1, SizeAssumption DEF Live, Slots
      <4>3. \A j \in Live' : j \in Live => m_fsmv'[j] = m_fsmv[j] \/ j = m_size
        BY <3>3, Numbers DEF Stored, TypeOK
      <4>4. m_fsmv'[m_size].due = now
        BY <3>3, <4>1 DEF Stored, TypeOK
      <4>5. \A j \in Live' : j < shiftedFrom' => j < shiftedFrom
        BY <3>3, <4>1, SizeAssumption DEF Stored, Live, Slots
      <4> QED
        BY <2>1, <3>1, <4>2, <4>3, <4>4, <4>5, Numbers DEF NotEarly
    <3>4. \/ UNCHANGED <<array, shiftedFrom>>
          \/ \E f \in Objects : f.due = now /\ Stored(f)
      BY <2>2, CreateCases
    <3> QED
      BY <3>2, <3>3, <3>4
  <2>3. ASSUME NEW par \in Params, DestroyFsm(par)
        PROVE  NotEarly'
    <3>1. fsmDelay' = fsmDelay
      BY <2>3, DestroyCases
    <3>2. CASE UNCHANGED <<array, shiftedFrom>>
      BY <2>1, <3>1, <3>2 DEF NotEarly, array, Live
    <3>3. ASSUME NEW k \in Live, Erased(k)
          PROVE  NotEarly'
      <4>1. ASSUME NEW j \in Live', j < shiftedFrom'
            PROVE  j \in Live /\ j < shiftedFrom /\ m_fsmv'[j] = m_fsmv[j]
        <5>1. j < k /\ j < shiftedFrom /\ k \in Nat /\ k < m_size
          BY <3>3, <4>1, Numbers DEF Erased, Live
        <5> QED
          BY <3>3, <4>1, <5>1, ErasedType, Numbers DEF Live
      <4> QED
        BY <2>1, <3>1, <4>1 DEF NotEarly
    <3> QED
      BY <2>3, <3>2, <3>3, DestroyCases
  <2>4. ASSUME UNCHANGED <<array, fsmDelay, m_encoder, shiftedFrom>>
        PROVE  NotEarly'
    BY <2>1, <2>4 DEF NotEarly, array, Live
  <2>5. ASSUME NEW m \in FsmMsgs, Dispatch(m)
        PROVE  NotEarly'
    <3>1. Live' = Live /\ shiftedFrom' = shiftedFrom
      BY <2>5, DispatchType DEF Live
    <3>2. ASSUME NEW j \in Live, j < shiftedFrom
          PROVE  m_fsmv'[j].due <= now' \/ m_fsmv'[j].due <= fsmDelay'[j]
      <4>1. CASE m_fsmv'[j] = m_fsmv[j] /\ fsmDelay'[j] = fsmDelay[j]
        BY <2>1, <3>2, <4>1 DEF NotEarly
      <4>2. CASE \E d \in Delays : m_fsmv'[j].due = now + d /\ fsmDelay'[j] = ULong(d + now)
        BY <1>2, <4>2, Numbers
      <4> QED
        BY <2>5, <4>1, <4>2, DispatchType
    <3> QED
      BY <3>1, <3>2 DEF NotEarly
  <2>6. \/ \E par \in Params : CreateFsm(par)
        \/ \E par \in Params : DestroyFsm(par)
        \/ UNCHANGED <<array, fsmDelay, m_encoder, shiftedFrom>>
        \/ \E m \in FsmMsgs : Dispatch(m)
    BY <1>3, CallbackCases
  <2> QED
    BY <1>1, <2>1, <2>2, <2>3, <2>4, <2>5, <2>6
<1>4. CASE StepFsm
  <2>1. UNCHANGED <<now, shiftedFrom>> /\ Live' = Live
    BY <1>4, StepType DEF Live
  <2>2. ASSUME NEW j \in Live, j < shiftedFrom
        PROVE  m_fsmv'[j].due <= now' \/ m_fsmv'[j].due <= fsmDelay'[j]
    <3>1. CASE UNCHANGED <<m_fsmv[j], fsmDelay[j]>>
      BY <2>1, <2>2, <3>1 DEF NotEarly
    <3>2. CASE \E d \in Delays : m_fsmv'[j].due = now + d /\ fsmDelay'[j] = ULong(d + now)
      BY <1>2, <3>2, Numbers
    <3>3. j \in Slots
      BY <2>2, Numbers
    <3> QED
      BY <1>4, <3>1, <3>2, <3>3, StepType
  <2> QED
    BY <1>1, <2>1, <2>2 DEF NotEarly
<1>5. CASE Tick
  <2>1. UNCHANGED <<array, fsmDelay, shiftedFrom>> /\ now < Horizon /\ now + 1 < TimeMod
    <3>1. FOREVER \in Delays
      BY DEF Delays
    <3>2. Horizon + FOREVER < TimeMod /\ FOREVER \in Nat /\ TimeMod \in Nat
      BY <3>1, DelayAssumption, SizeAssumption DEF NoWrap
    <3>3. now # Horizon /\ UNCHANGED <<array, fsmDelay, shiftedFrom>>
      BY <1>5 DEF Tick
    <3> QED
      BY <3>2, <3>3, Numbers
  <2>2. now' = now + 1
    BY <1>5, <2>1, ULongExact, Numbers DEF Tick
  <2>3. now' <= Horizon
    BY <2>1, <2>2, Numbers
  <2>4. \A j \in Live : m_fsmv[j].due <= now => m_fsmv[j].due <= now'
    BY <2>2, Numbers
  <2> QED
    BY <1>1, <2>1, <2>3, <2>4 DEF NotEarly, array, Live
<1>6. CASE UNCHANGED <<array, fsmDelay, now, shiftedFrom>>
  BY <1>1, <1>6 DEF NotEarly, array, Live
<1> QED
  BY <1>3, <1>4, <1>5, <1>6 DEF Next, Spin, SerialIdle, PollEncoder, HostSend, vars, array

\* "The return value is the amount of time that elapses before the next call to
\* Step()" (FiniteStateMachine.h:84): before any deadline can exceed an
\* unsigned long, no FSM whose deadline is its own is stepped early.
THEOREM NeverStepsEarly ==
    ASSUME NoWrap
    PROVE  Spec => NeverEarly
<1>1. Init => EarlyInv
  <2>1. ASSUME Init
        PROVE  EarlyInv
    <3>1. ASSUME NEW j \in Live
          PROVE  m_fsmv[j].due = 0
      <4>1. j \in Slots /\ j < Len(BootFsms)
        BY <2>1, BootAssumption, SizeAssumption DEF Init, Live, Slots
      <4> QED
        BY <2>1, <4>1 DEF Init, New
    <3>2. now = 0 /\ TypeOK
      BY <2>1, TypeInit DEF Init
    <3> QED
      BY <3>1, <3>2, Numbers DEF EarlyInv, NotEarly
  <2> QED
    BY <2>1
<1>2. EarlyInv /\ [Next]_vars => EarlyInv'
  BY EarlyStep
<1>3. EarlyInv /\ [Next]_vars =>
        [StepFsm /\ m_fsmv' # m_fsmv /\ i < shiftedFrom => m_fsmv[i].due <= now]_vars
  <2>1. ASSUME EarlyInv, StepFsm, m_fsmv' # m_fsmv, i < shiftedFrom
        PROVE  m_fsmv[i].due <= now
    <3>1. TypeOK /\ i \in Live /\ Due(i)
      BY <2>1, StepType DEF EarlyInv
    <3> QED
      BY <2>1, <3>1, Numbers DEF EarlyInv, NotEarly, Due
  <2> QED
    BY <2>1
<1> QED
  BY <1>1, <1>2, <1>3, PTL DEF Spec, NeverEarly

-----------------------------------------------------------------------------
(* The list the host believes in *)

\* A message to create an FSM finds room: the host counts those on their way.
RoomForAll == \A k \in DOMAIN rx : rx[k].op = "CREATE" => m_size + k <= HostLimit

\* A message to the manager or to FSMs, by what it is for.
LEMMA MessageCases ==
    ASSUME TypeOK, SerialCallback
    PROVE  /\ rx' = Tail(rx)
           /\ \/ \E par \in Params :
                    CreateFsm(par) /\ 1 \in DOMAIN rx /\ rx[1].op = "CREATE"
              \/ \E par \in Params : DestroyFsm(par)
              \/ UNCHANGED array
              \/ \E m \in FsmMsgs : Dispatch(m)
<1> DEFINE m == Head(rx)
<1>1. /\ m \in HostMessages /\ rx' = Tail(rx) /\ 1 \in DOMAIN rx /\ m = rx[1]
  BY DEF SerialCallback, TypeOK
<1>2. m \in MasterMsgs \/ m \in FsmMsgs
  BY <1>1, HostAssumption
<1>3. CASE m.dst = "FSM_MASTER"
  <2>1. m \in MasterMsgs
    BY <1>2, <1>3 DEF FsmMsgs
  <2>2. Message(m)
    BY <1>3 DEF SerialCallback
  <2>3. m.op \in {"CREATE", "DESTROY"} => m.par \in Params
    BY <2>1 DEF MasterMsgs
  <2>4. CASE m.op = "CREATE" /\ CreateFsm(m.par)
    BY <1>1, <2>3, <2>4
  <2>5. CASE m.op = "DESTROY" /\ DestroyFsm(m.par)
    BY <1>1, <2>3, <2>5
  <2>6. CASE UNCHANGED array
    BY <1>1, <2>6
  <2> QED
    BY <2>2, <2>4, <2>5, <2>6 DEF Message, ListFsms
<1>4. CASE m.dst # "FSM_MASTER"
  <2>1. m \in FsmMsgs
    BY <1>2, <1>4 DEF MasterMsgs
  <2>2. Dispatch(m)
    BY <1>4 DEF SerialCallback
  <2> QED
    BY <1>1, <2>1, <2>2
<1> QED
  BY <1>3, <1>4

\* The list is one of fingerprints.
LEMMA LoadedType ==
    ASSUME TypeOK
    PROVE  /\ Loaded \in Seq(Fingerprints) /\ Len(Loaded) = m_size
           /\ DOMAIN Loaded = 1 .. m_size
           /\ \A j \in 1 .. m_size : Loaded[j] = m_fsmv[j - 1].fp /\ j - 1 \in Live
<1>1. m_size \in Nat
  BY SizeAssumption DEF TypeOK, Slots
<1>2. ASSUME NEW j \in 1 .. m_size
      PROVE  j - 1 \in Live /\ m_fsmv[j - 1].fp \in Fingerprints
  <2>1. j - 1 \in Live
    BY <1>1 DEF Live
  <2> QED
    BY <2>1 DEF TypeOK, Objects
<1> QED
  BY <1>1, <1>2 DEF Loaded

\* With room behind it, an FSM that is created is the last of the list.
LEMMA CreateAppends ==
    ASSUME TypeOK, m_size + 1 < MaxFsm, NEW par \in Params, CreateFsm(par)
    PROVE  /\ UNCHANGED Loaded \/ \E fp \in Fingerprints : Registry!Create(fp)
           /\ m_size' \in Nat /\ m_size' <= m_size + 1
<1>1. m_size \in Slots /\ m_size \in Nat
  BY SizeAssumption DEF TypeOK, Slots
<1>2. PICK f \in NewFromArray(par, Addr \ heap, now) : PushBack(f)
  BY DEF CreateFsm
<1>3. now \in Nat
  BY SizeAssumption DEF TypeOK, Time
<1>4. CASE f = NULL
  <2>1. UNCHANGED <<m_fsmv, m_size>>
    BY <1>2, <1>4 DEF PushBack, array
  <2> QED
    BY <1>1, <2>1 DEF Loaded
<1>5. CASE f \in Objects /\ f.fp = par
  <2>1. f # NULL
    BY <1>5, NullAssumption
  <2>2. m_fsmv' = [m_fsmv EXCEPT ![m_size] = f] /\ m_size' = (m_size + 1) % MaxFsm
    <3>1. m_size < MaxFsm
      BY <1>1, SizeAssumption DEF Slots
    <3> QED
      BY <1>2, <2>1, <3>1 DEF PushBack
  <2>3. m_size' = m_size + 1
    BY <1>1, <2>2, SizeStep
  <2>4. m_fsmv'[m_size] = f /\ \A j \in Live : m_fsmv'[j] = m_fsmv[j]
    BY <1>1, <2>2 DEF TypeOK, Live, Slots
  <2>5. par \in Fingerprints
    BY <1>5 DEF Objects
  <2>6. Loaded' = [j \in 1 .. m_size + 1 |-> m_fsmv'[j - 1].fp]
    BY <2>3 DEF Loaded
  <2>7. Append(Loaded, par) =
           [j \in 1 .. m_size + 1 |-> IF j = m_size + 1 THEN par ELSE Loaded[j]]
    <3>1. Loaded \in Seq(Fingerprints) /\ Len(Loaded) = m_size
      BY LoadedType
    <3> DEFINE longer == Append(Loaded, par)
    <3>2. /\ longer \in Seq(Fingerprints) /\ Len(longer) = m_size + 1
          /\ \A j \in 1 .. m_size : longer[j] = Loaded[j]
          /\ longer[m_size + 1] = par
      BY <1>1, <2>5, <3>1
    <3> HIDE DEF longer
    <3>3. longer = [j \in 1 .. m_size + 1 |-> longer[j]]
      BY <3>2
    <3>4. \A j \in 1 .. m_size + 1 : j \in 1 .. m_size \/ j = m_size + 1
      BY <1>1
    <3>5. \A j \in 1 .. m_size + 1 : longer[j] = IF j = m_size + 1 THEN par ELSE Loaded[j]
      BY <3>2, <3>4
    <3> QED
      BY <3>3, <3>5 DEF longer
  <2>8. ASSUME NEW j \in 1 .. m_size + 1
        PROVE  m_fsmv'[j - 1].fp = IF j = m_size + 1 THEN par ELSE Loaded[j]
    <3>1. CASE j = m_size + 1
      <4>1. j - 1 = m_size
        BY <1>1, <3>1
      <4> QED
        BY <1>5, <2>4, <3>1, <4>1
    <3>2. CASE j # m_size + 1
      <4>1. j \in 1 .. m_size
        BY <1>1, <3>2
      <4> QED
        BY <2>4, <3>2, <4>1, LoadedType
    <3> QED
      BY <3>1, <3>2
  <2>9. Loaded' = Append(Loaded, par)
    BY <2>6, <2>7, <2>8
  <2> QED
    BY <1>1, <2>3, <2>5, <2>9 DEF Registry!Create
<1> QED
  BY <1>2, <1>3, <1>4, <1>5, NewFromArrayType

\* The FSM that is erased is the first of its fingerprint.
LEMMA DestroyRemoves ==
    ASSUME TypeOK, NEW par \in Params, DestroyFsm(par)
    PROVE  /\ UNCHANGED Loaded \/ \E fp \in Fingerprints : Registry!Destroy(fp)
           /\ m_size' \in Nat /\ m_size' <= m_size
<1>1. m_size \in Slots /\ m_size \in Nat
  BY SizeAssumption DEF TypeOK, Slots
<1>2. PICK k \in Slots : GetIndex(par, k) /\ Erase(k)
  BY DEF DestroyFsm
<1>3. CASE k \notin Live
  <2>1. UNCHANGED <<m_fsmv, m_size>>
    BY <1>2, <1>3 DEF Erase, array
  <2> QED
    BY <1>1, <2>1 DEF Loaded
<1>4. CASE k \in Live
  <2>1. k # MaxFsm - 1
    BY <1>4, SizeAssumption DEF Live, TypeOK, Slots
  <2>2. m_fsmv[k].fp = par /\ \A j \in Live : m_fsmv[j].fp = par => k <= j
    BY <1>2, <2>1 DEF GetIndex
  <2>3. Erased(k)
    BY <1>2, <1>4 DEF Erase, Erased
  <2>4. /\ k \in Nat /\ k + 1 \in 1 .. m_size /\ (k + 1) - 1 = k
        /\ m_size' = m_size - 1 /\ m_size' \in Nat
    BY <1>1, <1>4, <2>3 DEF Live, Erased
  <2>5. Loaded[k + 1] = par /\ par \in Fingerprints
    BY <2>2, <2>4, LoadedType
  <2>6. \A j \in 1 .. k : Loaded[j] # par
    <3> SUFFICES ASSUME NEW j \in 1 .. k, Loaded[j] = par PROVE FALSE
      OBVIOUS
    <3>1. j \in 1 .. m_size /\ j - 1 < k /\ j - 1 \in Nat
      BY <1>1, <2>4
    <3>2. j - 1 \in Live /\ m_fsmv[j - 1].fp = par
      BY <3>1, LoadedType
    <3> QED
      BY <2>2, <2>4, <3>1, <3>2
  <2>7. ASSUME NEW j \in 1 .. m_size - 1
        PROVE  m_fsmv'[j - 1].fp = IF j < k + 1 THEN Loaded[j] ELSE Loaded[j + 1]
    <3>1. j - 1 \in Live' /\ j \in 1 .. m_size /\ j + 1 \in 1 .. m_size /\ j - 1 \in Nat
      BY <1>1, <2>4 DEF Live
    <3>2. m_fsmv'[j - 1] = m_fsmv[IF j - 1 < k THEN j - 1 ELSE (j - 1) + 1]
      BY <1>4, <2>3, <3>1, ErasedType
    <3>3. Loaded[j] = m_fsmv[j - 1].fp /\ Loaded[j + 1] = m_fsmv[(j + 1) - 1].fp
      BY <3>1, LoadedType
    <3>4. (j - 1) + 1 = (j + 1) - 1 /\ (j - 1 < k <=> j < k + 1)
      BY <2>4, <3>1
    <3> QED
      BY <3>2, <3>3, <3>4
  <2>8. Loaded' = [j \in 1 .. m_size - 1 |->
                      IF j < k + 1 THEN Loaded[j] ELSE Loaded[j + 1]]
    BY <2>4, <2>7 DEF Loaded
  <2>9. Registry!Destroy(par)
    <3> DEFINE n == k + 1
    <3>1. /\ n \in 1 .. Len(Loaded) /\ Loaded[n] = par
          /\ \A j \in 1 .. n - 1 : Loaded[j] # par
          /\ Loaded' = [j \in 1 .. Len(Loaded) - 1 |->
                           IF j < n THEN Loaded[j] ELSE Loaded[j + 1]]
      BY <2>4, <2>5, <2>6, <2>8, LoadedType
    <3> HIDE DEF n
    <3> QED
      BY <3>1 DEF Registry!Destroy
  <2> QED
    BY <1>1, <2>4, <2>5, <2>9
<1> QED
  BY <1>3, <1>4

\* Stepping FSMs and sending them messages leaves their fingerprints alone.
LEMMA SteppingKeepsTheList ==
    ASSUME TypeOK, StepFsm \/ \E m \in FsmMsgs : Dispatch(m)
    PROVE  UNCHANGED <<Loaded, m_size>>
<1>1. UNCHANGED m_size
  BY StepType, DispatchType
<1>2. \A j \in Live : m_fsmv'[j].fp = m_fsmv[j].fp
  <2>1. Live \subseteq Slots
    BY SizeAssumption DEF TypeOK, Live, Slots
  <2>2. CASE StepFsm
    <3>1. m_fsmv'[i].fp = m_fsmv[i].fp /\ \A j \in Slots \ {i} : m_fsmv'[j] = m_fsmv[j]
      BY <2>2, StepType
    <3> QED
      BY <2>1, <3>1
  <2>3. CASE \E m \in FsmMsgs : Dispatch(m)
    BY <2>3, DispatchType
  <2> QED
    BY <2>2, <2>3
<1>3. \A j \in 1 .. m_size : j - 1 \in Live
  BY LoadedType
<1>4. Loaded' = Loaded
  BY <1>1, <1>2, <1>3 DEF Loaded
<1> QED
  BY <1>1, <1>4

LEMMA RegistryStep ==
    ASSUME TypeOK, RoomForAll, HostLimit < MaxFsm, [Next]_vars
    PROVE  RoomForAll' /\ [Registry!Next]_Loaded
<1>1. m_size \in Nat /\ HostLimit \in Nat /\ rx \in Seq(HostMessages) /\ Len(rx) \in Nat
      /\ DOMAIN rx = 1 .. Len(rx)
  BY SizeAssumption DEF TypeOK, Slots
<1>2. CASE SerialCallback
  <2>1. rx' = Tail(rx) /\ rx # <<>>
    BY <1>2, MessageCases DEF SerialCallback
  <2>2. \A k \in DOMAIN rx' : k \in Nat \ {0} /\ k + 1 \in DOMAIN rx /\ rx'[k] = rx[k + 1]
    BY <1>1, <2>1
  <2>3. /\ m_size' \in Nat /\ m_size' <= m_size + 1
        /\ UNCHANGED Loaded \/ Registry!Next
    <3>1. ASSUME NEW par \in Params, CreateFsm(par), 1 \in DOMAIN rx, rx[1].op = "CREATE"
          PROVE  /\ m_size' \in Nat /\ m_size' <= m_size + 1
                 /\ UNCHANGED Loaded \/ Registry!Next
      <4>1. m_size + 1 <= HostLimit
        BY <3>1 DEF RoomForAll
      <4>2. m_size + 1 < MaxFsm
        BY <1>1, <4>1, SizeAssumption
      <4> QED
        BY <3>1, <4>2, CreateAppends DEF Registry!Next
    <3>2. ASSUME NEW par \in Params, DestroyFsm(par)
          PROVE  /\ m_size' \in Nat /\ m_size' <= m_size + 1
                 /\ UNCHANGED Loaded \/ Registry!Next
      <4>1. /\ m_size' \in Nat /\ m_size' <= m_size
            /\ UNCHANGED Loaded \/ Registry!Next
        BY <3>2, DestroyRemoves DEF Registry!Next
      <4> QED
        BY <1>1, <4>1
    <3>3. CASE UNCHANGED array
      BY <1>1, <3>3 DEF array, Loaded
    <3>4. CASE \E m \in FsmMsgs : Dispatch(m)
      BY <1>1, <3>4, SteppingKeepsTheList
    <3> QED
      BY <1>2, <3>1, <3>2, <3>3, <3>4, MessageCases
  <2>4. RoomForAll'
    <3> SUFFICES ASSUME NEW k \in DOMAIN rx', rx'[k].op = "CREATE"
                 PROVE  m_size' + k <= HostLimit
      BY DEF RoomForAll
    <3>1. k \in Nat /\ m_size + (k + 1) <= HostLimit
      BY <2>2 DEF RoomForAll
    <3> QED
      BY <1>1, <2>3, <3>1
  <2> QED
    BY <2>3, <2>4
<1>3. CASE StepFsm
  BY <1>3, SteppingKeepsTheList DEF StepFsm, RoomForAll
<1>4. CASE HostSend
  <2>1. UNCHANGED <<Loaded, m_size>>
    BY <1>4 DEF HostSend, array, Loaded
  <2>2. PICK m \in HostMessages :
           /\ m.op = "CREATE" => m_size + Len(rx) < HostLimit
           /\ rx' = Append(rx, m)
    BY <1>4 DEF HostSend
  <2>3. RoomForAll'
    <3> SUFFICES ASSUME NEW k \in DOMAIN rx', rx'[k].op = "CREATE"
                 PROVE  m_size + k <= HostLimit
      BY <2>1 DEF RoomForAll
    <3>1. \/ k \in DOMAIN rx /\ rx'[k] = rx[k]
          \/ k = Len(rx) + 1 /\ rx'[k] = m
      BY <1>1, <2>2
    <3>2. CASE k \in DOMAIN rx /\ rx'[k] = rx[k]
      BY <3>2 DEF RoomForAll
    <3>3. CASE k = Len(rx) + 1 /\ rx'[k] = m
      <4>1. m_size + Len(rx) < HostLimit
        BY <2>2, <3>3
      <4> QED
        BY <1>1, <3>3, <4>1
    <3> QED
      BY <3>1, <3>2, <3>3
  <2> QED
    BY <2>1, <2>3
<1>5. CASE UNCHANGED <<array, rx>>
  BY <1>5 DEF array, Loaded, RoomForAll
<1> QED
  BY <1>2, <1>3, <1>4, <1>5
     DEF Next, Spin, SerialIdle, PollEncoder, Tick, vars, array

\* What the manager does to its array is what the host believes: creating appends,
\* destroying removes the first match and keeps the order (FSMVector.h:47-77), for
\* any array whose counter the host's FSMs do not fill (HostLimit < MaxFsm).
THEOREM RegistryRefines ==
    ASSUME HostLimit < MaxFsm
    PROVE  Spec => RegistrySpec
<1>1. Init => TypeOK /\ RoomForAll /\ Registry!Init
  <2> SUFFICES ASSUME Init PROVE TypeOK /\ RoomForAll /\ Registry!Init
    OBVIOUS
  <2>1. TypeOK /\ RoomForAll
    BY TypeInit DEF Init, RoomForAll
  <2>2. m_size = Len(BootFsms) /\ BootFsms \in Seq(Fingerprints) /\ Len(BootFsms) < MaxFsm
    BY BootAssumption DEF Init
  <2>3. ASSUME NEW j \in 1 .. m_size
        PROVE  Loaded[j] = BootFsms[j]
    <3>1. j - 1 \in Slots /\ j - 1 < Len(BootFsms) /\ (j - 1) + 1 = j
      BY <2>2, SizeAssumption DEF Slots
    <3>2. m_fsmv[j - 1] = New(BootFsms[(j - 1) + 1], NULL, 0)
      BY <3>1 DEF Init
    <3>3. m_fsmv[j - 1].fp = BootFsms[j]
      BY <3>1, <3>2 DEF New
    <3> QED
      BY <2>1, <3>3, LoadedType
  <2>4. Loaded = BootFsms
    BY <2>1, <2>2, <2>3, LoadedType
  <2> QED
    BY <2>1, <2>4 DEF Registry!Init
<1>2. TypeOK /\ RoomForAll /\ [Next]_vars => RoomForAll' /\ [Registry!Next]_Loaded
  BY RegistryStep
<1>3. TypeOK /\ [Next]_vars => TypeOK'
  BY TypeStep
<1> QED
  BY <1>1, <1>2, <1>3, PTL DEF Spec, RegistrySpec, Registry!Spec

-----------------------------------------------------------------------------
(* The reply to LIST *)

\* Induction over the numbers up to a bound, for a set S instead of a predicate:
\* the least number outside S would have a predecessor in it.
LEMMA SetInduction ==
    ASSUME NEW N \in Nat, NEW S, 0 \in S, \A n \in 0 .. N - 1 : n \in S => n + 1 \in S
    PROVE  0 .. N \subseteq S
<1> SUFFICES ASSUME ~(0 .. N \subseteq S) PROVE FALSE
  OBVIOUS
<1> DEFINE less == {p \in Nat \X Nat : p[1] < p[2]}
           T == {n \in 0 .. N : n \notin S}
<1>1. T \in SUBSET Nat /\ T # {}
  OBVIOUS
<1>2. IsWellFoundedOn(less, Nat)
  <2>1. OpToRel(<, Nat) = less
    BY DEF OpToRel
  <2> QED
    BY <2>1, NatLessThanWellFounded
<1> HIDE DEF less
<1>3. PICK x \in T : \A y \in T : ~(<<y, x>> \in less)
  BY <1>1, <1>2, WFMin
<1>4. \A y \in T : ~(y < x)
  BY <1>1, <1>3 DEF less
<1>5. /\ x \in 0 .. N /\ x \notin S /\ x # 0
      /\ \A n \in 0 .. N : n \notin S => ~(n < x)
  BY <1>4
<1> HIDE DEF T
<1>6. x - 1 \in 0 .. N - 1 /\ x - 1 \in 0 .. N /\ x - 1 < x /\ (x - 1) + 1 = x
  BY <1>5
<1>7. x - 1 \in S
  BY <1>5, <1>6
<1> QED
  BY <1>5, <1>6, <1>7

\* One step of Listing: the reply after slot n - 1, g being those before.
ListedOf(g, n) ==
    IF n = 0 THEN [fsms |-> <<>>, size |-> 4]
    ELSE LET sent == g[n - 1]
             fp == m_fsmv[n - 1].fp
             size == sent.size + 2 + DescLength[fp.id]
         IN  IF Fits(size)
             THEN [fsms |-> Append(sent.fsms, fp), size |-> size]
             ELSE sent

LEMMA ListingChooses ==
    Listing = (CHOOSE g : g = [n \in 0 .. m_size |-> ListedOf(g, n)])[m_size].fsms
BY DEF Listing, ListedOf

\* A step of Listing looks at the one before it only.
LEMMA ListedLocal ==
    ASSUME NEW g, NEW h, NEW n \in Nat, n = 0 \/ g[n - 1] = h[n - 1]
    PROVE  ListedOf(g, n) = ListedOf(h, n)
<1>1. CASE n = 0
  BY <1>1 DEF ListedOf
<1>2. CASE n # 0
  <2>1. g[n - 1] = h[n - 1]
    BY <1>2
  <2> QED
    BY <2>1 DEF ListedOf
<1> QED
  BY <1>1, <1>2

\* Listing is well defined.
LEMMA ListingExists ==
    ASSUME NEW N \in Nat
    PROVE  \E g : g = [n \in 0 .. N |-> ListedOf(g, n)]
<1> DEFINE S == {k \in 0 .. N : \E g : \A n \in 0 .. k : g[n] = ListedOf(g, n)}
<1>1. 0 \in S
  <2> DEFINE h == [n \in {0} |-> ListedOf(<<>>, 0)]
  <2>1. h[0] = ListedOf(h, 0)
    BY DEF ListedOf
  <2>2. \A n \in 0 .. 0 : n = 0
    OBVIOUS
  <2> HIDE DEF h
  <2>3. \A n \in 0 .. 0 : h[n] = ListedOf(h, n)
    BY <2>1, <2>2
  <2> QED
    BY <2>3
<1>2. ASSUME NEW k \in 0 .. N - 1, k \in S
      PROVE  k + 1 \in S
  <2>1. PICK g : \A n \in 0 .. k : g[n] = ListedOf(g, n)
    BY <1>2
  <2> DEFINE last == ListedOf(g, k + 1)
             h == [n \in 0 .. k + 1 |-> IF n <= k THEN g[n] ELSE last]
  <2>2. k \in Nat /\ k + 1 \in 0 .. N /\ k + 1 \in Nat
    OBVIOUS
  <2> HIDE DEF last
  <2>3. (\A n \in 0 .. k : h[n] = g[n]) /\ h[k + 1] = last
    BY <2>2
  <2> HIDE DEF h
  <2>4. ASSUME NEW n \in 0 .. k + 1
        PROVE  h[n] = ListedOf(h, n)
    <3>1. n \in Nat /\ (n = 0 \/ n - 1 \in 0 .. k) /\ (n \in 0 .. k \/ n = k + 1)
      BY <2>2
    <3>2. n = 0 \/ h[n - 1] = g[n - 1]
      BY <2>3, <3>1
    <3>3. ListedOf(h, n) = ListedOf(g, n)
      BY <3>1, <3>2, ListedLocal
    <3>4. CASE n \in 0 .. k
      BY <2>1, <2>3, <3>3, <3>4
    <3>5. CASE n = k + 1
      BY <2>3, <3>3, <3>5 DEF last
    <3> QED
      BY <3>1, <3>4, <3>5
  <2> QED
    BY <2>2, <2>4
<1> HIDE DEF S
<1>3. N \in S
  BY <1>1, <1>2, SetInduction
<1> USE DEF S
<1>4. PICK g : \A n \in 0 .. N : g[n] = ListedOf(g, n)
  BY <1>3
<1> DEFINE h == [n \in 0 .. N |-> g[n]]
<1>5. ASSUME NEW n \in 0 .. N
      PROVE  g[n] = ListedOf(h, n)
  <2>1. n \in Nat /\ (n = 0 \/ n - 1 \in 0 .. N)
    OBVIOUS
  <2>2. n = 0 \/ g[n - 1] = h[n - 1]
    BY <2>1
  <2> HIDE DEF h
  <2>3. ListedOf(g, n) = ListedOf(h, n)
    BY <2>1, <2>2, ListedLocal
  <2> QED
    BY <1>4, <2>3
<1>6. h = [n \in 0 .. N |-> ListedOf(h, n)]
  <2> DEFINE body(n) == ListedOf(h, n)
  <2> HIDE DEF body
  <2>1. h = [n \in 0 .. N |-> body(n)]
    BY <1>5 DEF body
  <2> QED
    BY <2>1 DEF body
<1> QED
  BY <1>6

\* The reply to LIST has room for every FSM the host keeps loaded, whatever
\* their fingerprints.  In the code, with BUFFERLENGTH = 512 and Fade's 11 bytes
\* (Fade.h:34-37 and the ID) the longest fingerprint, that is 39 FSMs.
ListsFit ==
    \E D \in Nat :
        /\ \A id \in PinIDs \cup SoleIDs : DescLength[id] <= D
        /\ 4 + HostLimit * (2 + D) <= BufferLength

\* ... so that none is left out of it.
LEMMA ListingIsLoaded ==
    ASSUME TypeOK, m_size <= HostLimit, ListsFit
    PROVE  Listing = Loaded
<1>1. /\ m_size \in Nat /\ HostLimit \in Nat /\ BufferLength \in Nat
      /\ DescLength \in [PinIDs \cup SoleIDs -> Nat]
  BY SizeAssumption DEF TypeOK, Slots
<1>2. PICK D \in Nat : /\ \A id \in PinIDs \cup SoleIDs : DescLength[id] <= D
                       /\ 4 + HostLimit * (2 + D) <= BufferLength
  BY DEF ListsFit
<1> DEFINE g == CHOOSE h : h = [n \in 0 .. m_size |-> ListedOf(h, n)]
<1>3. g = [n \in 0 .. m_size |-> ListedOf(g, n)]
  BY <1>1, ListingExists
<1>4. Listing = g[m_size].fsms
  BY ListingChooses
<1> HIDE DEF g
<1>5. \A n \in 0 .. m_size : g[n] = ListedOf(g, n)
  BY <1>3
<1> DEFINE first(n) == [j \in 1 .. n |-> m_fsmv[j - 1].fp]
           S == {n \in 0 .. m_size : /\ g[n].fsms = first(n)
                                     /\ g[n].size \in Nat
                                     /\ g[n].size <= 4 + n * (2 + D)}
<1>6. 0 \in S
  <2>1. 0 \in 0 .. m_size
    BY <1>1
  <2>2. g[0] = [fsms |-> <<>>, size |-> 4]
    BY <1>5, <2>1 DEF ListedOf
  <2>3. first(0) = <<>>
    OBVIOUS
  <2> QED
    BY <2>1, <2>2, <2>3
<1>7. ASSUME NEW n \in 0 .. m_size - 1, n \in S
      PROVE  n + 1 \in S
  <2> DEFINE fp == m_fsmv[n].fp
             size == g[n].size + 2 + DescLength[fp.id]
  <2>1. /\ n \in Nat /\ n + 1 \in 0 .. m_size /\ n + 1 # 0 /\ (n + 1) - 1 = n
        /\ n + 1 <= HostLimit /\ n \in Live
    BY <1>1 DEF Live
  <2>2. fp \in Fingerprints
    BY <2>1 DEF TypeOK, Objects
  <2>3. DescLength[fp.id] \in Nat /\ DescLength[fp.id] <= D
    <3>1. fp.id \in PinIDs \cup SoleIDs
      BY <2>2 DEF Fingerprints
    <3> QED
      BY <1>1, <1>2, <3>1
  <2>4. /\ g[n].fsms = first(n) /\ g[n].size \in Nat
        /\ g[n].size <= 4 + n * (2 + D)
    BY <1>7
  <2>5. size \in Nat /\ size <= 4 + (n + 1) * (2 + D)
    <3> DEFINE d == DescLength[fp.id]
               s == g[n].size
    <3>1. d \in Nat /\ d <= D /\ s \in Nat /\ s <= 4 + n * (2 + D)
      BY <2>3, <2>4
    <3> HIDE DEF d, s
    <3>2. s + 2 + d \in Nat /\ s + 2 + d <= 4 + (n + 1) * (2 + D)
      BY <2>1, <3>1
    <3> QED
      BY <3>2 DEF d, s
  <2>6. (n + 1) * (2 + D) <= HostLimit * (2 + D)
    BY <1>1, <2>1
  <2>7. Fits(size)
    <3> DEFINE a == (n + 1) * (2 + D)
               b == HostLimit * (2 + D)
    <3>1. a \in Nat /\ b \in Nat
      BY <1>1, <2>1
    <3>2. a <= b /\ 4 + b <= BufferLength /\ size \in Nat /\ size <= 4 + a
      BY <1>2, <2>5, <2>6
    <3> HIDE DEF a, b, size
    <3>3. size <= BufferLength
      BY <1>1, <3>1, <3>2
    <3> QED
      BY <3>3 DEF Fits
  <2>8. g[n + 1] = [fsms |-> Append(g[n].fsms, fp), size |-> size]
    <3>1. g[n + 1] = ListedOf(g, n + 1)
      BY <1>5, <2>1
    <3> QED
      BY <2>1, <2>7, <3>1 DEF ListedOf
  <2>9. Append(first(n), fp) = first(n + 1)
    <3>1. \A j \in 1 .. n : j - 1 \in Live
      BY <1>1, <2>1 DEF Live
    <3>2. \A j \in 1 .. n : m_fsmv[j - 1].fp \in Fingerprints
      BY <3>1 DEF TypeOK, Objects
    <3>3. first(n) \in Seq(Fingerprints) /\ Len(first(n)) = n
      BY <2>1, <3>2
    <3> DEFINE short == first(n)
               longer == Append(short, fp)
    <3> HIDE DEF short, fp
    <3>4. /\ longer \in Seq(Fingerprints) /\ Len(longer) = n + 1
          /\ \A j \in 1 .. n : longer[j] = short[j]
          /\ longer[n + 1] = fp
      BY <2>1, <2>2, <3>3 DEF short
    <3> HIDE DEF longer
    <3>5. longer = [j \in 1 .. n + 1 |-> longer[j]]
      BY <3>4
    <3>6. ASSUME NEW j \in 1 .. n + 1
          PROVE  longer[j] = m_fsmv[j - 1].fp
      <4>1. CASE j \in 1 .. n
        <5>1. short[j] = m_fsmv[j - 1].fp
          BY <4>1 DEF short
        <5> QED
          BY <3>4, <4>1, <5>1
      <4>2. CASE j = n + 1
        BY <2>1, <3>4, <4>2 DEF fp
      <4> QED
        BY <2>1, <4>1, <4>2
    <3>7. longer = first(n + 1)
      BY <3>5, <3>6
    <3> QED
      BY <3>7 DEF longer, short
  <2> HIDE DEF first, fp, size
  <2>10. g[n + 1].fsms = first(n + 1) /\ g[n + 1].size = size
    BY <2>4, <2>8, <2>9
  <2> QED
    BY <2>1, <2>5, <2>10
<1> HIDE DEF S
<1>8. m_size \in S
  BY <1>1, <1>6, <1>7, SetInduction
<1> USE DEF S
<1>9. g[m_size].fsms = first(m_size)
  BY <1>8
<1> QED
  BY <1>4, <1>9 DEF Loaded

\* The host's FSMs, those on their way included, never exceed its limit.
ListInv == TypeOK /\ RoomForAll /\ m_size <= HostLimit

LEMMA ListStep ==
    ASSUME ListInv, HostLimit < MaxFsm, [Next]_vars
    PROVE  ListInv'
<1>1. TypeOK' /\ RoomForAll'
  BY TypeStep, RegistryStep DEF ListInv
<1>2. m_size \in Nat /\ HostLimit \in Nat
  BY SizeAssumption DEF ListInv, TypeOK, Slots
<1>3. CASE SerialCallback
  <2>1. ASSUME NEW par \in Params, CreateFsm(par), 1 \in DOMAIN rx, rx[1].op = "CREATE"
        PROVE  m_size' <= HostLimit
    <3>1. m_size + 1 <= HostLimit
      BY <2>1 DEF ListInv, RoomForAll
    <3>2. m_size + 1 < MaxFsm
      BY <1>2, <3>1, SizeAssumption
    <3>3. m_size' \in Nat /\ m_size' <= m_size + 1
      BY <2>1, <3>2, CreateAppends DEF ListInv
    <3> QED
      BY <1>2, <3>1, <3>3
  <2>2. ASSUME NEW par \in Params, DestroyFsm(par)
        PROVE  m_size' <= HostLimit
    <3>1. m_size' \in Nat /\ m_size' <= m_size
      BY <2>2, DestroyRemoves DEF ListInv
    <3> QED
      BY <1>2, <3>1 DEF ListInv
  <2>3. CASE UNCHANGED array
    BY <1>1, <2>3 DEF array, ListInv
  <2>4. CASE \E m \in FsmMsgs : Dispatch(m)
    BY <1>1, <2>4, SteppingKeepsTheList DEF ListInv
  <2> QED
    BY <1>1, <1>3, <2>1, <2>2, <2>3, <2>4, MessageCases DEF ListInv
<1>4. CASE StepFsm
  BY <1>1, <1>4, SteppingKeepsTheList DEF ListInv
<1>5. CASE UNCHANGED m_size
  BY <1>1, <1>5 DEF ListInv
<1> QED
  BY <1>3, <1>4, <1>5
     DEF Next, Spin, SerialIdle, PollEncoder, Tick, HostSend, vars, array

\* A reply to LIST names every loaded FSM, in order (MecanumMaster.h:42-46), when
\* the FSMs the host keeps loaded fit in the buffer of the reply and in the array.
THEOREM ListsEveryFsmHolds ==
    ASSUME HostLimit < MaxFsm, Len(BootFsms) <= HostLimit, ListsFit
    PROVE  Spec => ListsEveryFsm
<1>1. Init => ListInv
  BY TypeInit DEF Init, ListInv, RoomForAll
<1>2. ListInv /\ [Next]_vars => ListInv'
  BY ListStep
<1>3. ListInv /\ [Next]_vars =>
        [SerialCallback /\ Head(rx).op = "LIST" => tx' = Loaded]_vars
  <2>1. ASSUME ListInv, SerialCallback, Head(rx).op = "LIST"
        PROVE  tx' = Loaded
    <3> DEFINE m == Head(rx)
    <3>1. m \in HostMessages
      BY <2>1 DEF SerialCallback, ListInv, TypeOK
    <3>2. m \in MasterMsgs
      <4>1. m \in FsmMsgs => m.op # "LIST"
        BY DEF FsmMsgs
      <4> QED
        BY <2>1, <3>1, <4>1, HostAssumption
    <3>3. m.dst = "FSM_MASTER"
      BY <3>2 DEF MasterMsgs
    <3>4. Message(m)
      BY <2>1, <3>3 DEF SerialCallback
    <3>5. tx' = Listing
      BY <2>1, <3>4 DEF Message, ListFsms
    <3> QED
      BY <2>1, <3>5, ListingIsLoaded DEF ListInv
  <2> QED
    BY <2>1
<1> QED
  BY <1>1, <1>2, <1>3, PTL DEF Spec, ListsEveryFsm
=============================================================================

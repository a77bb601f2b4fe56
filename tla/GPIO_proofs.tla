---------------------------- MODULE GPIO_proofs ------------------------------
(***************************************************************************)
(* The cache of a pin is true whichever calls fail: that invariant is      *)
(* inductive as it stands, since an object that is not opened promises     *)
(* nothing, and a failure leaves either the pin or the descriptor as it was. *)
(* What Pulse() and PWM() have done when they return true needs LoopInv: the *)
(* edges behind are what both the time and the rising edges are counted by. *)
(***************************************************************************)
EXTENDS GPIO, Integers, TLAPS

\* What Pulse(), PWM() and the clock do to the pin is to change its value.
Steady == UNCHANGED <<direction, edge, object, opened>>

LEMMA ValueOnly == PulseStep \/ PWMStep \/ Tick => Steady
BY DEF PulseStep, PWMStep, Flip, Awake, Interrupted, Low, PWMCheck, PWMAwake,
       PWMInterrupted, SteadyInterrupted, SteadyEnd, Tick, Environment, Steady

LEMMA SteadyKeepsCache == CacheIsTrue /\ Steady => CacheIsTrue'
BY DEF CacheIsTrue, Steady, object, Mode

\* Open() fills the cache before the object counts as open.
LEMMA OpenKeepsCache == CacheIsTrue /\ Open => CacheIsTrue'
<1> SUFFICES ASSUME CacheIsTrue, Open PROVE CacheIsTrue'
    OBVIOUS
<1>1. CASE OpenUnexported
      BY <1>1 DEF OpenUnexported, CacheIsTrue, sysfs, object, Mode
<1>2. CASE OpenExported
      BY <1>2 DEF Open, OpenExported, CacheIsTrue, Reopened, object, Mode
<1> QED BY <1>1, <1>2 DEF Open

\* A call that fails half-way leaves cache and sysfs the same.
LEMMA CallKeepsCache == CacheIsTrue /\ Call => CacheIsTrue'
<1> SUFFICES ASSUME CacheIsTrue, Call PROVE CacheIsTrue'
    OBVIOUS
<1>1. CASE Open
      BY <1>1, OpenKeepsCache
<1>2. CASE Close
      BY <1>2 DEF Close, CacheIsTrue
<1>3. CASE SetAgain
      BY <1>3 DEF SetAgain, CacheIsTrue, sysfs, object, Mode
<1>4. CASE GetValue
      BY <1>4 DEF GetValue, CacheIsTrue, Reopened, sysfs, Mode
<1>5. ASSUME NEW dir \in Directions, NEW v \in Levels, SetDirection(dir, v)
      PROVE CacheIsTrue'
      BY <1>5 DEF SetDirection, CacheIsTrue, Reopened, sysfs, Mode
<1>6. ASSUME NEW e \in Edges, SetEdge(e) PROVE CacheIsTrue'
      BY <1>6 DEF SetEdge, CacheIsTrue, Mode
<1>7. ASSUME NEW v \in Levels, SetValue(v) PROVE CacheIsTrue'
      BY <1>7, SteadyKeepsCache DEF SetValue, Steady
<1>8. ASSUME NEW count \in Counts, PulseBegin(count) PROVE CacheIsTrue'
      BY <1>8, SteadyKeepsCache DEF PulseBegin, Environment, Steady
<1>9. CASE PWMBegin
      BY <1>9, SteadyKeepsCache DEF PWMBegin, Environment, Steady
<1>10. ASSUME NEW duty \in {"zero", "tiny", "full"}, SteadyBegin(duty)
       PROVE CacheIsTrue'
       BY <1>10, SteadyKeepsCache DEF SteadyBegin, Environment, Steady
<1> QED BY <1>1, <1>2, <1>3, <1>4, <1>5, <1>6, <1>7, <1>8, <1>9, <1>10 DEF Call

\* While a pin is open, direction and edge of the object are those of sysfs, and
\* the descriptor is closed or can do what the direction allows (GPIO.h:247, 256).
THEOREM CacheConsistency == Spec => []CacheIsTrue
<1>1. Init => CacheIsTrue
      BY DEF Init, CacheIsTrue
<1>2. CacheIsTrue /\ [Next]_vars => CacheIsTrue'
  <2> SUFFICES ASSUME CacheIsTrue, [Next]_vars PROVE CacheIsTrue'
      OBVIOUS
  <2>1. CASE Call
        BY <2>1, CallKeepsCache
  <2>2. CASE PulseStep \/ PWMStep \/ Tick
        BY <2>2, ValueOnly, SteadyKeepsCache
  <2>3. CASE UNCHANGED vars
        BY <2>3, SteadyKeepsCache DEF vars, sysfs, object, Steady
  <2> QED BY <2>1, <2>2, <2>3 DEF Next
<1> QED BY <1>1, <1>2, PTL DEF Spec
-----------------------------------------------------------------------------
(* What Pulse() and PWM() have done when they return true *)

Cycles == {"zero", "tiny", "full"}

\* The variables of the two loops.
LoopsOK ==
    /\ {flips, next, elapsed, rises, asked} \subseteq Nat
    /\ job \in {"none", "pulse", "pwm"} \cup Cycles

\* Where the call can be.
PlacesOK ==
    /\ job = "none" => pc = "idle"
    /\ job = "pulse" => pc \in {"idle", "flip", "sleep", "low"}
    /\ job = "pwm" => pc \in {"idle", "flip", "sleep", "low", "pwm_check", "pwm_sleep"}
    /\ job = "pwm" /\ pc \in {"flip", "sleep"} => flips = 1
    /\ job \in Cycles => pc \in {"idle", "steady"}

\* The number of half periods behind is what the time and the rising edges are
\* counted by: 2 * asked - 1 - flips before an edge, one more after it.
PulseKept ==
    job = "pulse" =>
        /\ pc = "flip" =>
              /\ flips \in 1 .. 2 * asked - 1
              /\ next = (2 * asked - 1 - flips) * DURATION
              /\ 2 * rises + (flips % 2) = 2 * asked - flips
              /\ elapsed >= next
        /\ pc = "sleep" =>
              /\ flips \in 1 .. 2 * asked - 1
              /\ next = (2 * asked - flips) * DURATION
              /\ 2 * rises = 2 * asked - flips + (flips % 2)
        /\ pc = "low" =>
              /\ elapsed >= (2 * asked - 1) * DURATION
              /\ rises = asked

\* Between two pulses of PWM() the pin is low, unless the last one gave up.
LowKept ==
    /\ job = "pwm" /\ pc \in {"pwm_check", "pwm_sleep"} => value = 0 \/ gaveUp
    /\ job = "zero" /\ pc = "steady" => value = 0

LoopInv == LoopsOK /\ PlacesOK /\ PulseKept /\ LowKept

Loops == UNCHANGED <<pc, flips, next, job, elapsed, rises, asked, gaveUp>>

LEMMA RestKeepsLoops == LoopInv /\ Loops /\ (value' = value \/ pc = "idle") => LoopInv'
BY DEF LoopInv, LoopsOK, PlacesOK, PulseKept, LowKept, Loops, Cycles

\* Every other call leaves the variables of the loops alone.
LEMMA CallIsRest == Call =>
    \/ Loops /\ pc = "idle"
    \/ \E count \in Counts : PulseBegin(count)
    \/ PWMBegin
    \/ \E duty \in Cycles : SteadyBegin(duty)
<1>1. Open \/ Close \/ SetAgain \/ GetValue => Loops
      BY DEF Open, OpenUnexported, OpenExported, Close, SetAgain, GetValue, pulse, Loops
<1>2. ASSUME NEW dir, NEW v, SetDirection(dir, v) PROVE Loops
      BY <1>2 DEF SetDirection, pulse, Loops
<1>3. ASSUME NEW e, SetEdge(e) PROVE Loops
      BY <1>3 DEF SetEdge, pulse, Loops
<1>4. ASSUME NEW v, SetValue(v) PROVE Loops
      BY <1>4 DEF SetValue, pulse, Loops
<1> QED BY <1>1, <1>2, <1>3, <1>4 DEF Call, Cycles

LEMMA BeginKeepsLoops ==
    LoopInv /\ pc = "idle" /\ Call => LoopInv'
<1> SUFFICES ASSUME LoopInv, pc = "idle", Call PROVE LoopInv'
    OBVIOUS
<1>1. CASE Loops /\ pc = "idle"
      BY <1>1, RestKeepsLoops
<1>2. ASSUME NEW count \in Counts, PulseBegin(count) PROVE LoopInv'
  <2>1. count \in Nat \ {0} /\ DURATION \in Nat \ {0}
        BY GPIOAssumption
  <2>2. /\ pc' = "flip" /\ job' = "pulse" /\ flips' = 2 * count - 1
        /\ elapsed' = 0 /\ next' = 0 /\ rises' = 0 /\ asked' = count
        BY <1>2 DEF PulseBegin
  <2>3. (2 * count - 1 - (2 * count - 1)) * DURATION = 0
        BY <2>1
  <2>4. (2 * count - 1) % 2 = 1 /\ 2 * count - 1 \in Nat
        BY <2>1
  <2>5. PulseKept'
        BY <2>1, <2>2, <2>3, <2>4 DEF PulseKept
  <2> QED BY <2>1, <2>2, <2>4, <2>5 DEF LoopInv, LoopsOK, PlacesOK, LowKept, Cycles
<1>3. CASE PWMBegin
      BY <1>3 DEF PWMBegin, LoopInv, LoopsOK, PlacesOK, PulseKept, LowKept, Cycles
<1>4. ASSUME NEW duty \in Cycles, SteadyBegin(duty) PROVE LoopInv'
      BY <1>4 DEF SteadyBegin, SetsValue, Writes, LoopInv, LoopsOK, PlacesOK, PulseKept,
                  LowKept, Cycles
<1> QED BY <1>1, <1>2, <1>3, <1>4, CallIsRest

LEMMA FlipKeepsLoops == LoopInv /\ Flip => LoopInv'
<1> SUFFICES ASSUME LoopInv, Flip PROVE LoopInv'
    OBVIOUS
<1>1. DURATION \in Nat \ {0} /\ {flips, next, elapsed, rises, asked} \subseteq Nat
      BY GPIOAssumption DEF LoopInv, LoopsOK
<1>2. /\ pc = "flip" /\ pc' \in {"sleep", "idle"}
      /\ next' = next + DURATION /\ rises' = rises + (flips % 2)
      /\ UNCHANGED <<flips, elapsed, asked, job>>
      BY DEF Flip, SetsValue
<1>3. job = "pulse" => PulseKept'
  <2> SUFFICES ASSUME job = "pulse" PROVE PulseKept'
      OBVIOUS
  <2>1. /\ flips \in 1 .. 2 * asked - 1
        /\ next = (2 * asked - 1 - flips) * DURATION
        /\ 2 * rises + (flips % 2) = 2 * asked - flips
        BY <1>2 DEF LoopInv, PulseKept
  <2>2. (2 * asked - 1 - flips) * DURATION + DURATION = (2 * asked - flips) * DURATION
        BY <1>1
  <2>3. 2 * (rises + (flips % 2)) = 2 * asked - flips + (flips % 2)
        BY <1>1, <2>1
  <2> QED BY <1>1, <1>2, <2>1, <2>2, <2>3 DEF PulseKept
<1>4. PulseKept'
      BY <1>2, <1>3 DEF PulseKept
<1>5. LoopsOK'
      BY <1>1, <1>2 DEF LoopInv, LoopsOK
<1> QED BY <1>2, <1>4, <1>5 DEF LoopInv, PlacesOK, LowKept, Cycles

LEMMA AwakeKeepsLoops == LoopInv /\ Awake => LoopInv'
<1> SUFFICES ASSUME LoopInv, Awake PROVE LoopInv'
    OBVIOUS
<1>1. DURATION \in Nat \ {0} /\ {flips, next, elapsed, rises, asked} \subseteq Nat
      BY GPIOAssumption DEF LoopInv, LoopsOK
<1>2. /\ pc = "sleep" /\ pc' = IF flips' = 0 THEN "low" ELSE "flip"
      /\ elapsed >= next /\ flips' = flips - 1
      /\ UNCHANGED <<next, rises, elapsed, asked, job>>
      BY DEF Awake
<1>3. flips \in Nat \ {0}
      BY <1>1, <1>2 DEF LoopInv, LoopsOK, PlacesOK, PulseKept, Cycles
<1>4. job = "pulse" => PulseKept'
  <2> SUFFICES ASSUME job = "pulse" PROVE PulseKept'
      OBVIOUS
  <2>1. /\ flips \in 1 .. 2 * asked - 1
        /\ next = (2 * asked - flips) * DURATION
        /\ 2 * rises = 2 * asked - flips + (flips % 2)
        BY <1>2 DEF LoopInv, PulseKept
  <2>2. 2 * asked - 1 - (flips - 1) = 2 * asked - flips
        BY <1>1
  <2>3. (flips % 2) + ((flips - 1) % 2) = 1
        BY <1>1, <1>3
  <2>4. 2 * rises + ((flips - 1) % 2) = 2 * asked - (flips - 1)
        BY <1>1, <2>1, <2>3
  <2>5. CASE flips = 1
    <3>1. next = (2 * asked - 1) * DURATION
          BY <2>1, <2>5
    <3>2. 2 * rises = 2 * asked - 1 + 1
          BY <2>1, <2>5, 1 % 2 = 1
    <3>3. rises = asked
          BY <1>1, <3>2
    <3> QED BY <1>2, <2>5, <3>1, <3>3 DEF PulseKept
  <2>6. CASE flips # 1
    <3>1. flips - 1 \in 1 .. 2 * asked - 1 /\ pc' = "flip"
          BY <1>1, <1>2, <2>1, <2>6
    <3> QED BY <1>2, <2>1, <2>2, <2>4, <3>1 DEF PulseKept
  <2> QED BY <2>5, <2>6
<1> QED BY <1>1, <1>2, <1>3, <1>4 DEF LoopInv, LoopsOK, PlacesOK, PulseKept, LowKept, Cycles

\* Giving up, or having waited for one signal more.
LEMMA InterruptedKeepsLoops == LoopInv /\ Interrupted => LoopInv'
BY DEF Interrupted, Return, LoopInv, LoopsOK, PlacesOK, PulseKept, LowKept, Cycles

LEMMA LowKeepsLoops == LoopInv /\ Low => LoopInv'
BY DEF Low, Return, Writes, Throws, LoopInv, LoopsOK, PlacesOK, PulseKept, LowKept, Cycles

LEMMA PWMKeepsLoops == LoopInv /\ PWMStep => LoopInv'
<1> SUFFICES ASSUME LoopInv, PWMStep PROVE LoopInv'
    OBVIOUS
<1>1. CASE PWMCheck
      BY <1>1 DEF PWMCheck, LoopInv, LoopsOK, PlacesOK, PulseKept, LowKept, Cycles
<1>2. CASE PWMAwake
      BY <1>2 DEF PWMAwake, LoopInv, LoopsOK, PlacesOK, PulseKept, LowKept, Cycles
<1>3. CASE PWMInterrupted
      BY <1>3 DEF PWMInterrupted, LoopInv, LoopsOK, PlacesOK, PulseKept, LowKept, Cycles
<1>4. CASE SteadyInterrupted
      BY <1>4 DEF SteadyInterrupted, LoopInv, LoopsOK, PlacesOK, PulseKept, LowKept, Cycles
<1>5. CASE SteadyEnd
      BY <1>5 DEF SteadyEnd, LoopInv, LoopsOK, PlacesOK, PulseKept, LowKept, Cycles
<1> QED BY <1>1, <1>2, <1>3, <1>4, <1>5 DEF PWMStep

\* Time passing makes an edge later, never earlier.
LEMMA TickKeepsLoops == LoopInv /\ Tick => LoopInv'
<1> SUFFICES ASSUME LoopInv, Tick PROVE LoopInv'
    OBVIOUS
<1>1. DURATION \in Nat \ {0} /\ {flips, next, elapsed, rises, asked} \subseteq Nat
      BY GPIOAssumption DEF LoopInv, LoopsOK
<1>2. /\ elapsed' = elapsed + 1
      /\ UNCHANGED <<value, pc, flips, next, job, rises, asked, gaveUp>>
      BY DEF Tick
<1>3. elapsed >= next => elapsed' >= next'
      BY <1>1, <1>2
<1>4. (2 * asked - 1) * DURATION \in Int
      BY <1>1
<1>5. elapsed >= (2 * asked - 1) * DURATION => elapsed' >= (2 * asked' - 1) * DURATION
      BY <1>1, <1>2, <1>4
<1> QED BY <1>1, <1>2, <1>3, <1>5 DEF LoopInv, LoopsOK, PlacesOK, PulseKept, LowKept, Cycles

LEMMA LoopInvHolds == Spec => []LoopInv
<1>1. Init => LoopInv
      BY DEF Init, LoopInv, LoopsOK, PlacesOK, PulseKept, LowKept, Cycles
<1>2. LoopInv /\ [Next]_vars => LoopInv'
  <2> SUFFICES ASSUME LoopInv, [Next]_vars PROVE LoopInv'
      OBVIOUS
  <2>1. CASE Call
        BY <2>1, BeginKeepsLoops DEF Call
  <2>2. CASE PulseStep
        BY <2>2, FlipKeepsLoops, AwakeKeepsLoops, InterruptedKeepsLoops, LowKeepsLoops
           DEF PulseStep
  <2>3. CASE PWMStep
        BY <2>3, PWMKeepsLoops
  <2>4. CASE Tick
        BY <2>4, TickKeepsLoops
  <2>5. CASE UNCHANGED vars
        BY <2>5, RestKeepsLoops DEF vars, sysfs, pulse, Loops
  <2> QED BY <2>1, <2>2, <2>3, <2>4, <2>5 DEF Next
<1> QED BY <1>1, <1>2, PTL DEF Spec

\* A call returns true in three places.
LEMMA ReturnsThere == LoopInv /\ [Next]_vars /\ Returned =>
    \/ Low /\ Writes(0) /\ job = "pulse" /\ pc = "low"
    \/ PWMCheck /\ job = "pwm" /\ pc = "pwm_check" /\ elapsed >= TIME
    \/ SteadyEnd /\ job \in Cycles /\ pc = "steady" /\ (job = "full" => Writes(0))
<1> SUFFICES ASSUME LoopInv, [Next]_vars, Returned
             PROVE  \/ Low /\ Writes(0) /\ job = "pulse" /\ pc = "low"
                    \/ PWMCheck /\ job = "pwm" /\ pc = "pwm_check" /\ elapsed >= TIME
                    \/ SteadyEnd /\ job \in Cycles /\ pc = "steady" /\ (job = "full" => Writes(0))
    OBVIOUS
<1>1. /\ pc # "idle" /\ pc' = "idle" /\ outcome' = "true"
      /\ job \in {"none", "pulse", "pwm"} \cup Cycles
      /\ PlacesOK
      BY DEF Returned, LoopInv, LoopsOK
<1>2. ~Call /\ ~Tick /\ ~UNCHANGED vars
      BY <1>1 DEF Call, Tick, vars, pulse
<1>3. ~Flip /\ ~Awake /\ ~Interrupted
      BY <1>1 DEF Flip, SetsValue, Awake, Interrupted, Return
<1>4. ~PWMAwake /\ ~PWMInterrupted /\ ~SteadyInterrupted
      BY <1>1 DEF PWMAwake, PWMInterrupted, SteadyInterrupted
<1>5. CASE Low
      BY <1>1, <1>5 DEF Low, Return, PlacesOK, Cycles
<1>6. CASE PWMCheck
      BY <1>1, <1>6 DEF PWMCheck, PlacesOK, Cycles
<1>7. CASE SteadyEnd
      BY <1>1, <1>7 DEF SteadyEnd, PlacesOK, Cycles
<1> QED BY <1>2, <1>3, <1>4, <1>5, <1>6, <1>7 DEF Next, PulseStep, PWMStep

\* When Pulse() or PWM() returns true the pin is low (GPIO.h:205, 218), but for a
\* PWM() whose last Pulse() gave up and a duty cycle that rounds to nothing.
THEOREM EndsLowHolds == Spec => EndsLow
<1>1. LoopInv /\ [Next]_vars =>
        [Returned /\ ~gaveUp' /\ job # "tiny" => value' = 0]_vars
  <2> SUFFICES ASSUME LoopInv, [Next]_vars, Returned, ~gaveUp', job # "tiny"
               PROVE  value' = 0
      OBVIOUS
  <2>1. CASE Low /\ Writes(0) /\ job = "pulse" /\ pc = "low"
        BY <2>1 DEF Writes
  <2>2. CASE PWMCheck /\ job = "pwm" /\ pc = "pwm_check" /\ elapsed >= TIME
        BY <2>2 DEF PWMCheck, LoopInv, LowKept
  <2>3. CASE SteadyEnd /\ job \in Cycles /\ pc = "steady" /\ (job = "full" => Writes(0))
        BY <2>3 DEF SteadyEnd, Writes, LoopInv, LowKept, Cycles
  <2> QED BY <2>1, <2>2, <2>3, ReturnsThere
<1> QED BY <1>1, LoopInvHolds, PTL DEF Spec, EndsLow

\* Pulse() returns true after as many rising edges as were asked for and no earlier
\* than they take (GPIO.h:203); PWM() after its time (GPIO.h:223), unless it gave up.
THEOREM TakesItsTimeHolds == Spec => TakesItsTime
<1>1. LoopInv /\ [Next]_vars =>
        [Returned =>
            IF job = "pulse"
            THEN rises = asked /\ elapsed >= (2 * asked - 1) * DURATION
            ELSE elapsed >= TIME \/ gaveUp']_vars
  <2> SUFFICES ASSUME LoopInv, [Next]_vars, Returned
               PROVE  IF job = "pulse"
                      THEN rises = asked /\ elapsed >= (2 * asked - 1) * DURATION
                      ELSE elapsed >= TIME \/ gaveUp'
      OBVIOUS
  <2>1. CASE Low /\ Writes(0) /\ job = "pulse" /\ pc = "low"
        BY <2>1 DEF LoopInv, PulseKept
  <2>2. CASE PWMCheck /\ job = "pwm" /\ pc = "pwm_check" /\ elapsed >= TIME
        BY <2>2
  <2>3. CASE SteadyEnd /\ job \in Cycles /\ pc = "steady" /\ (job = "full" => Writes(0))
    <3>1. elapsed \in Nat /\ TIME \in Nat
          BY GPIOAssumption DEF LoopInv, LoopsOK
    <3>2. gaveUp' = (elapsed < TIME)
          BY <2>3 DEF SteadyEnd
    <3>3. elapsed >= TIME \/ elapsed < TIME
          BY <3>1
    <3> QED BY <2>3, <3>2, <3>3 DEF Cycles
  <2> QED BY <2>1, <2>2, <2>3, ReturnsThere
<1> QED BY <1>1, LoopInvHolds, PTL DEF Spec, TakesItsTime
=============================================================================

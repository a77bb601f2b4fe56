-------------------------- MODULE HostSession_proofs --------------------------
(***************************************************************************)
(* Theorems about HostSession and SentryMonitor, for every set of FSMs,    *)
(* rates and pins, every host and any number of messages: the types,       *)
(* owners of lit LEDs, the watchdog of the motors, the tree's quiet fifth  *)
(* fader, what ClearFSMs() leaves, how long a fade takes, the turns of the *)
(* tree's lights, and the files of the monitor.                            *)
(***************************************************************************)
EXTENDS SentryMonitor, TLAPS

(***************************************************************************)
(* Faders                                                                  *)
(***************************************************************************)

\* The step is a positive number that leaves the brightness inside an int.
LEMMA StepIsPositive ==
    ASSUME NEW rate \in Rates
    PROVE  rate \in (Nat \ {0}) \X Nat /\ BrightnessStep(rate) \in Nat \ {0}
<1>1. RateIsSane(rate)
  BY FadeAssumption
<1>2. rate \in (Nat \ {0}) \X Nat /\ BrightnessStep(rate) > 0
  BY <1>1 DEF RateIsSane
<1>3. rate[1] \in Nat \ {0} /\ rate[2] \in Nat
  BY <1>2
<1>4. FULL * rate[2] * 2 \in Nat
  BY <1>3, FadeAssumption
<1>5. (FULL * rate[2] * 2) % LongMod \in Nat
  BY <1>4, FadeAssumption
<1>6. ((FULL * rate[2] * 2) % LongMod) \div rate[1] \in Int
  BY <1>3, <1>5
<1> QED
  BY <1>2, <1>6 DEF BrightnessStep

LEMMA NewFaderType ==
    ASSUME NEW rate \in Rates
    PROVE  NewFader(rate) \in Faders
BY FadeAssumption DEF NewFader, Faders

\* A brightness stays between 0 and FULL.
LEMMA RaisedType ==
    ASSUME NEW fader \in Faders
    PROVE  Raised(fader) \in Faders
<1>1. BrightnessStep(fader.rate) \in Nat \ {0}
  BY StepIsPositive DEF Faders
<1>2. FULL \in Nat \ {0}
  BY FadeAssumption
<1> DEFINE b == fader.brightness + BrightnessStep(fader.rate)
<1>3. b \in Nat
  BY <1>1 DEF Faders
<1> HIDE DEF b
<1>4. ~(b >= FULL) => b \in 0 .. FULL
  BY <1>2, <1>3
<1>5. FULL \in 0 .. FULL
  BY <1>2
<1>6. [fader EXCEPT !.brightness = FULL, !.dir = "DOWN", !.peaked = TRUE] \in Faders
  BY <1>5 DEF Faders
<1>7. ~(b >= FULL) => [fader EXCEPT !.brightness = b] \in Faders
  BY <1>4 DEF Faders
<1> QED
  BY <1>6, <1>7 DEF Raised, b

LEMMA LoweredType ==
    ASSUME NEW fader \in Faders
    PROVE  Lowered(fader) \in Faders
<1>1. BrightnessStep(fader.rate) \in Nat \ {0}
  BY StepIsPositive DEF Faders
<1>2. FULL \in Nat \ {0}
  BY FadeAssumption
<1> DEFINE b == fader.brightness - BrightnessStep(fader.rate)
<1>3. b \in Int /\ b <= FULL
  BY <1>1, <1>2 DEF Faders
<1> HIDE DEF b
<1>4. ~(b <= 0) => b \in 0 .. FULL
  BY <1>2, <1>3
<1>5. 0 \in 0 .. FULL
  BY <1>2
<1>6. [fader EXCEPT !.brightness = 0, !.dir = "UP"] \in Faders
  BY <1>5 DEF Faders
<1>7. ~(b <= 0) => [fader EXCEPT !.brightness = b] \in Faders
  BY <1>4 DEF Faders
<1> QED
  BY <1>6, <1>7 DEF Lowered, b

LEMMA AgedType ==
    ASSUME NEW fader \in Faders
    PROVE  Aged(fader) \in Faders
<1>1. fader.rate[2] \in Nat
  BY StepIsPositive DEF Faders
<1>2. [fader EXCEPT !.age = fader.rate[2], !.peaked = FALSE] \in Faders
  BY <1>1 DEF Faders
<1>3. fader.age + fader.rate[2] \in Nat
  BY <1>1 DEF Faders
<1>4. [fader EXCEPT !.age = @ + fader.rate[2]] \in Faders
  BY <1>3 DEF Faders
<1> QED
  BY <1>2, <1>4 DEF Aged

LEMMA FadedType ==
    ASSUME NEW fader \in Faders
    PROVE  Faded(fader) \in Faders
BY AgedType, RaisedType, LoweredType DEF Faded

LEMMA SwitchedType ==
    ASSUME NEW fader \in Faders, NEW dir \in {"UP", "DOWN"}
    PROVE  /\ Frozen(fader) \in Faders
           /\ Enabled(fader) \in Faders
           /\ Aimed(fader, dir) \in Faders
BY DEF Frozen, Enabled, Aimed, Faders

(***************************************************************************)
(* The tree                                                                *)
(***************************************************************************)

LEMMA SpinnersAreLights == Spinners \subseteq Lights /\ 4 \in Lights /\ 4 \notin Spinners
BY DEF Spinners, Lights

LEMMA FollowingType ==
    ASSUME NEW k \in Spinners
    PROVE  Following(k) \in Spinners
BY DEF Following, Spinners

LEMMA NewTreeType == NewTree \in Trees
<1>1. NewFader(TreeRate) \in Faders
  BY NewFaderType, TreeAssumption
<1> QED
  BY <1>1 DEF NewTree, Trees, Spinners

\* What the start makes of the five faders.
RevUpFaders(tree) ==
    [k \in Lights |->
        IF InPlace(tree, k) THEN Frozen(tree.fader[k])
        ELSE Aimed(tree.fader[k], IF k = tree.target THEN "UP" ELSE "DOWN")]

LEMMA RevUpFadersType ==
    ASSUME NEW tree \in Trees
    PROVE  RevUpFaders(tree) \in [Lights -> Faders]
<1> SUFFICES ASSUME NEW k \in Lights
             PROVE  RevUpFaders(tree)[k] \in Faders
  BY DEF RevUpFaders
<1>1. tree.fader[k] \in Faders
  BY DEF Trees
<1>2. Frozen(tree.fader[k]) \in Faders
  BY <1>1, SwitchedType
<1>3. Aimed(tree.fader[k], IF k = tree.target THEN "UP" ELSE "DOWN") \in Faders
  BY <1>1, SwitchedType
<1> QED
  BY <1>2, <1>3 DEF RevUpFaders

LEMMA RevUpType ==
    ASSUME NEW tree \in Trees
    PROVE  RevUp(tree) \in Trees
<1> DEFINE held == RevUpFaders(tree)
<1>1. held \in [Lights -> Faders]
  BY RevUpFadersType
<1>2. tree.target \in Spinners /\ tree.target \in Lights
  BY SpinnersAreLights DEF Trees
<1>3. Following(tree.target) \in Spinners
  BY <1>2, FollowingType
<1>4. Enabled(held[tree.target]) \in Faders
  BY <1>1, <1>2, SwitchedType
<1>5. [held EXCEPT ![tree.target] = Enabled(@)] \in [Lights -> Faders]
  BY <1>1, <1>4
<1> HIDE DEF held
<1>6. [state |-> "Spinning", target |-> Following(tree.target),
       fader |-> [held EXCEPT ![tree.target] = Enabled(@)]] \in Trees
  BY <1>3, <1>5 DEF Trees
<1>7. [tree EXCEPT !.fader = held] \in Trees
  BY <1>1 DEF Trees
<1> QED
  BY <1>6, <1>7 DEF RevUp, held, RevUpFaders

LEMMA SpinType ==
    ASSUME NEW tree \in Trees
    PROVE  Spin(tree) \in Trees
<1> DEFINE t == IF tree.fader[tree.target].brightness = FULL
                THEN Following(tree.target) ELSE tree.target
           GoesOn(k) == k = t \/ tree.fader[k].brightness # 0
           faders == [k \in Lights |->
                IF k \notin Spinners THEN tree.fader[k]
                ELSE IF GoesOn(k) THEN Enabled(tree.fader[k])
                ELSE Frozen(tree.fader[k])]
<1>1. t \in Spinners
  BY FollowingType DEF Trees
<1>2. ASSUME NEW k \in Lights
      PROVE  tree.fader[k] \in Faders /\ Enabled(tree.fader[k]) \in Faders
             /\ Frozen(tree.fader[k]) \in Faders
  BY SwitchedType DEF Trees
<1>3. faders \in [Lights -> Faders]
  BY <1>2
<1> HIDE DEF t, faders
<1>4. [tree EXCEPT !.target = t, !.fader = faders] \in Trees
  BY <1>1, <1>3 DEF Trees
<1> QED
  BY <1>4 DEF Spin, t, faders

LEMMA TransitionType ==
    ASSUME NEW tree \in Trees
    PROVE  Transition(tree) \in Trees
BY RevUpType, SpinType DEF Transition

LEMMA TreeSteppedType ==
    ASSUME NEW tree \in Trees
    PROVE  TreeStepped(tree) \in Trees
<1> DEFINE next == Transition(tree)
           Twice(k) == /\ next.state = "Spinning"
                       /\ k = next.target
                       /\ Faded(next.fader[k]).brightness < FULL
           faders == [k \in Lights |->
               IF Twice(k) THEN Faded(Faded(next.fader[k])) ELSE Faded(next.fader[k])]
<1>1. next \in Trees
  BY TransitionType
<1> HIDE DEF next
<1>2. ASSUME NEW k \in Lights
      PROVE  Faded(next.fader[k]) \in Faders /\ Faded(Faded(next.fader[k])) \in Faders
  BY <1>1, FadedType DEF Trees
<1>3. faders \in [Lights -> Faders]
  BY <1>2
<1> HIDE DEF faders
<1>4. [next EXCEPT !.fader = faders] \in Trees
  BY <1>1, <1>3 DEF Trees
<1> QED
  BY <1>4 DEF TreeStepped, faders, next

(***************************************************************************)
(* Objects                                                                 *)
(***************************************************************************)

LEMMA LoadableType == Loadable \subseteq Fingerprints
BY LoadAssumption

\* An object is one of five kinds, told apart by its ID.
Loads(ids) == {f \in Loadable : f.id \in ids}

LEMMA FingerprintKinds ==
    ASSUME NEW fp \in Loadable
    PROVE  /\ fp.id \in {"FSM_FADE"} \cup PinIDs \cup SoleIDs
           /\ fp.id = "FSM_FADE" => fp.rate \in Rates /\ fp.pin \in Pins
           /\ fp.id \in PinIDs => fp.pin \in Pins
<1>1. fp \in Fingerprints
  BY LoadableType
<1>2. CASE fp \in [id : {"FSM_FADE"}, pin : Pins, rate : Rates]
  BY <1>2 DEF PinIDs
<1>3. CASE fp \in [id : PinIDs, pin : Pins, rate : {NULL}]
  BY <1>3 DEF PinIDs
<1>4. CASE fp \in [id : SoleIDs, pin : {NULL}, rate : {NULL}]
  BY <1>4 DEF PinIDs, SoleIDs
<1> QED
  BY <1>1, <1>2, <1>3, <1>4 DEF Fingerprints

LEMMA ObjectKinds ==
    ASSUME NEW o \in Objects
    PROVE  \/ o \in [fp : Loads({"FSM_FADE"}), fader : Faders]
           \/ o \in [fp : Loads({"FSM_CHRISTMASTREE"}), tree : Trees]
           \/ o \in [fp : Loads({"FSM_BATTERYMONITOR"}), level : 0 .. 4]
           \/ o \in [fp : Loads({"FSM_MOTORCONTROLLER"}), armed : BOOLEAN]
           \/ o \in [fp : Loads(PinIDs \cup {"FSM_SENTRY"}), on : BOOLEAN]
BY DEF Objects, Loads

LEMMA KindsAreObjects ==
    /\ [fp : Loads({"FSM_FADE"}), fader : Faders] \subseteq Objects
    /\ [fp : Loads({"FSM_CHRISTMASTREE"}), tree : Trees] \subseteq Objects
    /\ [fp : Loads({"FSM_BATTERYMONITOR"}), level : 0 .. 4] \subseteq Objects
    /\ [fp : Loads({"FSM_MOTORCONTROLLER"}), armed : BOOLEAN] \subseteq Objects
    /\ [fp : Loads(PinIDs \cup {"FSM_SENTRY"}), on : BOOLEAN] \subseteq Objects
BY DEF Objects, Loads

LEMMA ObjectFields ==
    ASSUME NEW o \in Objects
    PROVE  /\ o.fp \in Loadable
           /\ o.fp.id = "FSM_FADE" => o \in [fp : Loads({"FSM_FADE"}), fader : Faders]
           /\ o.fp.id = "FSM_CHRISTMASTREE" =>
                o \in [fp : Loads({"FSM_CHRISTMASTREE"}), tree : Trees]
           /\ o.fp.id = "FSM_BATTERYMONITOR" =>
                o \in [fp : Loads({"FSM_BATTERYMONITOR"}), level : 0 .. 4]
           /\ o.fp.id = "FSM_MOTORCONTROLLER" =>
                o \in [fp : Loads({"FSM_MOTORCONTROLLER"}), armed : BOOLEAN]
           /\ o.fp.id \in PinIDs =>
                o \in [fp : Loads(PinIDs \cup {"FSM_SENTRY"}), on : BOOLEAN]
BY ObjectKinds DEF Loads, PinIDs

LEMMA NewType ==
    ASSUME NEW fp \in Loadable
    PROVE  New(fp) \in Objects /\ New(fp).fp = fp
<1>1. CASE fp.id = "FSM_FADE"
  <2>1. NewFader(fp.rate) \in Faders
    BY <1>1, FingerprintKinds, NewFaderType
  <2>2. New(fp) = [fp |-> fp, fader |-> NewFader(fp.rate)]
    BY <1>1 DEF New
  <2>3. fp \in Loads({"FSM_FADE"})
    BY <1>1 DEF Loads
  <2> QED
    BY <2>1, <2>2, <2>3, KindsAreObjects
<1>2. CASE fp.id = "FSM_CHRISTMASTREE"
  <2>1. New(fp) = [fp |-> fp, tree |-> NewTree]
    BY <1>2 DEF New
  <2>2. fp \in Loads({"FSM_CHRISTMASTREE"})
    BY <1>2 DEF Loads
  <2> QED
    BY <2>1, <2>2, KindsAreObjects, NewTreeType
<1>3. CASE fp.id = "FSM_BATTERYMONITOR"
  <2>1. New(fp) = [fp |-> fp, level |-> 0]
    BY <1>3 DEF New
  <2>2. fp \in Loads({"FSM_BATTERYMONITOR"}) /\ 0 \in 0 .. 4
    BY <1>3 DEF Loads
  <2> QED
    BY <2>1, <2>2, KindsAreObjects
<1>4. CASE fp.id = "FSM_MOTORCONTROLLER"
  <2>1. New(fp) = [fp |-> fp, armed |-> FALSE]
    BY <1>4 DEF New
  <2>2. fp \in Loads({"FSM_MOTORCONTROLLER"})
    BY <1>4 DEF Loads
  <2>3. [fp |-> fp, armed |-> FALSE] \in [fp : Loads({"FSM_MOTORCONTROLLER"}), armed : BOOLEAN]
    BY <2>2
  <2>4. New(fp) \in Objects
    BY <2>1, <2>3, KindsAreObjects
  <2> QED
    BY <2>1, <2>4
<1>5. CASE fp.id \in PinIDs \cup {"FSM_SENTRY"}
  <2>1. New(fp) = [fp |-> fp, on |-> FALSE]
    BY <1>5 DEF New, PinIDs
  <2>2. fp \in Loads(PinIDs \cup {"FSM_SENTRY"})
    BY <1>5 DEF Loads
  <2>3. [fp |-> fp, on |-> FALSE] \in [fp : Loads(PinIDs \cup {"FSM_SENTRY"}), on : BOOLEAN]
    BY <2>2
  <2>4. New(fp) \in Objects
    BY <2>1, <2>3, KindsAreObjects
  <2> QED
    BY <2>1, <2>4
<1> QED
  BY <1>1, <1>2, <1>3, <1>4, <1>5, FingerprintKinds DEF PinIDs, SoleIDs

(***************************************************************************)
(* Steps of the board                                                      *)
(***************************************************************************)

\* The same FSMs in the same order.
SameFsms ==
    /\ DOMAIN loaded' = DOMAIN loaded
    /\ Len(loaded') = Len(loaded)
    /\ \A k \in DOMAIN loaded : loaded'[k].fp = loaded[k].fp

LEMMA SeqShape ==
    ASSUME NEW S, NEW s \in Seq(S)
    PROVE  Len(s) \in Nat /\ DOMAIN s = 1 .. Len(s) /\ s \in [1 .. Len(s) -> S]
OBVIOUS

LEMMA ReplaceType ==
    ASSUME loaded \in Seq(Objects), NEW k \in DOMAIN loaded,
           NEW o \in Objects, o.fp = loaded[k].fp,
           loaded' = [loaded EXCEPT ![k] = o]
    PROVE  loaded' \in Seq(Objects) /\ SameFsms
<1>1. DOMAIN loaded' = DOMAIN loaded /\ Len(loaded') = Len(loaded)
  OBVIOUS
<1>2. loaded' \in Seq(Objects)
  OBVIOUS
<1>3. \A j \in DOMAIN loaded : loaded'[j].fp = loaded[j].fp
  OBVIOUS
<1> QED
  BY <1>1, <1>2, <1>3 DEF SameFsms

LEMMA DriveType ==
    ASSUME lit \in [Pins -> BOOLEAN], NEW w, \A p \in DOMAIN w : w[p] \in BOOLEAN, Drive(w)
    PROVE  lit' \in [Pins -> BOOLEAN]
<1>1. ASSUME NEW p \in Pins
      PROVE  (IF p \in DOMAIN w THEN w[p] ELSE lit[p]) \in BOOLEAN
  BY Zenon
<1> QED
  BY <1>1 DEF Drive

LEMMA AllLowType ==
    ASSUME NEW fp
    PROVE  \A p \in DOMAIN AllLow(fp) : AllLow(fp)[p] \in BOOLEAN
BY DEF AllLow

LEMMA StepFadeType ==
    ASSUME BoardTypeOK, NEW k \in DOMAIN loaded, StepFade(k)
    PROVE  BoardTypeOK' /\ SameFsms
<1> DEFINE fader == Faded(loaded[k].fader)
           o == [loaded[k] EXCEPT !.fader = fader]
<1>1. loaded \in Seq(Objects) /\ loaded[k] \in Objects /\ loaded[k].fp.id = "FSM_FADE"
  BY DEF BoardTypeOK, StepFade, Is
<1>2. loaded[k] \in [fp : Loads({"FSM_FADE"}), fader : Faders]
  BY <1>1, ObjectFields
<1>3. fader \in Faders
  BY <1>2, FadedType
<1>4. o \in [fp : Loads({"FSM_FADE"}), fader : Faders] /\ o.fp = loaded[k].fp
  BY <1>2, <1>3
<1>5. o \in Objects
  BY <1>4, KindsAreObjects
<1>6. loaded' = [loaded EXCEPT ![k] = o]
  BY DEF StepFade
<1>7. loaded' \in Seq(Objects) /\ SameFsms
  BY <1>1, <1>4, <1>5, <1>6, ReplaceType
<1>8. lit' \in [Pins -> BOOLEAN]
  <2> DEFINE w == [p \in {loaded[k].fp.pin} |-> Shines(fader)]
  <2>1. Drive(w)
    BY DEF StepFade
  <2>2. \A p \in DOMAIN w : w[p] \in BOOLEAN
    BY DEF Shines
  <2> HIDE DEF w
  <2> QED
    BY <2>1, <2>2, DriveType DEF BoardTypeOK
<1>9. {driving, enable, bridge}' \subseteq BOOLEAN
  BY DEF StepFade, BoardTypeOK
<1> QED
  BY <1>7, <1>8, <1>9 DEF BoardTypeOK

LEMMA StepTreeType ==
    ASSUME BoardTypeOK, NEW k \in DOMAIN loaded, StepTree(k)
    PROVE  BoardTypeOK' /\ SameFsms
<1> DEFINE next == TreeStepped(loaded[k].tree)
           o == [loaded[k] EXCEPT !.tree = next]
           Wrote(p) == \E n \in Written(loaded[k].tree) : TreePin(n) = p /\ Shines(next.fader[n])
           w == [p \in {TreePin(n) : n \in Written(loaded[k].tree)} |-> Wrote(p)]
<1>1. loaded \in Seq(Objects) /\ loaded[k] \in Objects /\ loaded[k].fp.id = "FSM_CHRISTMASTREE"
  BY DEF BoardTypeOK, StepTree, Is
<1>2. loaded[k] \in [fp : Loads({"FSM_CHRISTMASTREE"}), tree : Trees]
  BY <1>1, ObjectFields
<1>3. next \in Trees
  BY <1>2, TreeSteppedType
<1>4. Drive(w)
  BY DEF StepTree
<1>5. \A p \in DOMAIN w : w[p] \in BOOLEAN
  OBVIOUS
<1>6. loaded' = [loaded EXCEPT ![k] = o]
  BY DEF StepTree
<1> HIDE DEF next, w
<1>7. o \in [fp : Loads({"FSM_CHRISTMASTREE"}), tree : Trees] /\ o.fp = loaded[k].fp
  BY <1>2, <1>3
<1>8. o \in Objects
  BY <1>7, KindsAreObjects
<1>9. loaded' \in Seq(Objects) /\ SameFsms
  BY <1>1, <1>6, <1>7, <1>8, ReplaceType
<1>10. lit' \in [Pins -> BOOLEAN]
  BY <1>4, <1>5, DriveType DEF BoardTypeOK
<1>11. {driving, enable, bridge}' \subseteq BOOLEAN
  BY DEF StepTree, BoardTypeOK
<1> QED
  BY <1>9, <1>10, <1>11 DEF BoardTypeOK

LEMMA StepBlinkType ==
    ASSUME BoardTypeOK, NEW k \in DOMAIN loaded, StepBlink(k)
    PROVE  BoardTypeOK' /\ SameFsms
<1> DEFINE o == [loaded[k] EXCEPT !.on = ~loaded[k].on]
           w == [p \in {loaded[k].fp.pin} |-> ~loaded[k].on]
<1>1. loaded \in Seq(Objects) /\ loaded[k] \in Objects /\ loaded[k].fp.id \in PinIDs
  BY DEF BoardTypeOK, StepBlink, Is, PinIDs
<1>2. loaded[k] \in [fp : Loads(PinIDs \cup {"FSM_SENTRY"}), on : BOOLEAN]
  BY <1>1, ObjectFields
<1>3. Drive(w)
  BY DEF StepBlink
<1>4. \A p \in DOMAIN w : w[p] \in BOOLEAN
  OBVIOUS
<1>5. loaded' = [loaded EXCEPT ![k] = o]
  BY DEF StepBlink
<1>6. (~loaded[k].on) \in BOOLEAN
  OBVIOUS
<1>7. o \in [fp : Loads(PinIDs \cup {"FSM_SENTRY"}), on : BOOLEAN] /\ o.fp = loaded[k].fp
  BY <1>2, <1>6
<1>8. o \in Objects
  BY <1>7, KindsAreObjects
<1> HIDE DEF o, w
<1>9. loaded' \in Seq(Objects) /\ SameFsms
  BY <1>1, <1>5, <1>7, <1>8, ReplaceType
<1>10. lit' \in [Pins -> BOOLEAN]
  BY <1>3, <1>4, DriveType DEF BoardTypeOK
<1>11. {driving, enable, bridge}' \subseteq BOOLEAN
  BY DEF StepBlink, BoardTypeOK
<1> QED
  BY <1>9, <1>10, <1>11 DEF BoardTypeOK

LEMMA StepToggleType ==
    ASSUME BoardTypeOK, NEW k \in DOMAIN loaded, StepToggle(k)
    PROVE  BoardTypeOK' /\ SameFsms
<1> DEFINE w == [p \in {loaded[k].fp.pin} |-> loaded[k].on]
<1>1. loaded[k] \in Objects /\ loaded[k].fp.id \in PinIDs
  BY DEF BoardTypeOK, StepToggle, Is, PinIDs
<1>2. loaded[k] \in [fp : Loads(PinIDs \cup {"FSM_SENTRY"}), on : BOOLEAN]
  BY <1>1, ObjectFields
<1>3. Drive(w)
  BY DEF StepToggle
<1>4. \A p \in DOMAIN w : w[p] \in BOOLEAN
  BY <1>2
<1> HIDE DEF w
<1>5. lit' \in [Pins -> BOOLEAN]
  BY <1>3, <1>4, DriveType DEF BoardTypeOK
<1>6. SameFsms /\ loaded' \in Seq(Objects) /\ {driving, enable, bridge}' \subseteq BOOLEAN
  BY DEF StepToggle, BoardTypeOK, SameFsms
<1> QED
  BY <1>5, <1>6 DEF BoardTypeOK

LEMMA NextLevel ==
    ASSUME NEW level \in 0 .. 4
    PROVE  /\ (level + 1) % 5 \in 0 .. 4
           /\ (level + 1) % 5 # 0 => BatteryPin[(level + 1) % 5] \in BatteryPins
<1>1. (level + 1) % 5 \in 0 .. 4
  OBVIOUS
<1> QED
  BY <1>1 DEF BatteryPins

LEMMA StepBatteryType ==
    ASSUME BoardTypeOK, NEW k \in DOMAIN loaded, StepBattery(k)
    PROVE  BoardTypeOK' /\ SameFsms
<1> DEFINE next == (loaded[k].level + 1) % 5
           o == [loaded[k] EXCEPT !.level = next]
           w == IF next = 0 THEN AllLow(loaded[k].fp) ELSE [p \in {BatteryPin[next]} |-> TRUE]
<1>1. loaded \in Seq(Objects) /\ loaded[k] \in Objects /\ loaded[k].fp.id = "FSM_BATTERYMONITOR"
  BY DEF BoardTypeOK, StepBattery, Is
<1>2. loaded[k] \in [fp : Loads({"FSM_BATTERYMONITOR"}), level : 0 .. 4]
  BY <1>1, ObjectFields
<1>3. next \in 0 .. 4
  BY <1>2, NextLevel
<1>4. Drive(w) /\ loaded' = [loaded EXCEPT ![k] = o]
  BY DEF StepBattery
<1>5. \A p \in DOMAIN w : w[p] \in BOOLEAN
  BY AllLowType
<1> HIDE DEF next, w
<1>6. o \in [fp : Loads({"FSM_BATTERYMONITOR"}), level : 0 .. 4] /\ o.fp = loaded[k].fp
  BY <1>2, <1>3
<1>7. o \in Objects
  BY <1>6, KindsAreObjects
<1>8. loaded' \in Seq(Objects) /\ SameFsms
  BY <1>1, <1>4, <1>6, <1>7, ReplaceType
<1>9. lit' \in [Pins -> BOOLEAN]
  BY <1>4, <1>5, DriveType DEF BoardTypeOK
<1>10. {driving, enable, bridge}' \subseteq BOOLEAN
  BY DEF StepBattery, BoardTypeOK
<1> QED
  BY <1>8, <1>9, <1>10 DEF BoardTypeOK

LEMMA StepMimicType ==
    ASSUME BoardTypeOK, NEW k \in DOMAIN loaded, StepMimic(k)
    PROVE  BoardTypeOK' /\ SameFsms
<1> DEFINE w == [p \in {loaded[k].fp.pin} |-> bridge]
<1>1. Drive(w)
  BY DEF StepMimic
<1>2. \A p \in DOMAIN w : w[p] \in BOOLEAN
  BY DEF BoardTypeOK
<1> HIDE DEF w
<1>3. lit' \in [Pins -> BOOLEAN]
  BY <1>1, <1>2, DriveType DEF BoardTypeOK
<1>4. SameFsms /\ loaded' \in Seq(Objects) /\ {driving, enable, bridge}' \subseteq BOOLEAN
  BY DEF StepMimic, BoardTypeOK, SameFsms
<1> QED
  BY <1>3, <1>4 DEF BoardTypeOK

LEMMA TimeOutType ==
    ASSUME BoardTypeOK, NEW k \in DOMAIN loaded, TimeOut(k)
    PROVE  BoardTypeOK' /\ SameFsms
<1> DEFINE o == [loaded[k] EXCEPT !.armed = FALSE]
<1>1. loaded \in Seq(Objects) /\ loaded[k] \in Objects /\ loaded[k].fp.id = "FSM_MOTORCONTROLLER"
  BY DEF BoardTypeOK, TimeOut, Is
<1>2. loaded[k] \in [fp : Loads({"FSM_MOTORCONTROLLER"}), armed : BOOLEAN]
  BY <1>1, ObjectFields
<1>3. o \in [fp : Loads({"FSM_MOTORCONTROLLER"}), armed : BOOLEAN] /\ o.fp = loaded[k].fp
  BY <1>2
<1>4. o \in Objects
  BY <1>3, KindsAreObjects
<1>5. loaded' = [loaded EXCEPT ![k] = o]
  BY DEF TimeOut
<1>6. loaded' \in Seq(Objects) /\ SameFsms
  BY <1>1, <1>3, <1>4, <1>5, ReplaceType
<1>7. lit' \in [Pins -> BOOLEAN] /\ {driving, enable, bridge}' \subseteq BOOLEAN
  BY DEF TimeOut, BoardTypeOK
<1> QED
  BY <1>6, <1>7 DEF BoardTypeOK

LEMMA StepFsmType ==
    ASSUME BoardTypeOK, StepFsm
    PROVE  BoardTypeOK' /\ SameFsms
BY StepFadeType, StepTreeType, StepBlinkType, StepToggleType, StepBatteryType,
   StepMimicType, TimeOutType DEF StepFsm

\* A message may rewrite several objects.
LEMMA RewriteType ==
    ASSUME loaded \in Seq(Objects), NEW f, loaded' = f, f \in [DOMAIN loaded -> Objects],
           \A k \in DOMAIN loaded : f[k].fp = loaded[k].fp
    PROVE  loaded' \in Seq(Objects) /\ SameFsms
<1>1. Len(loaded) \in Nat /\ DOMAIN loaded = 1 .. Len(loaded)
  OBVIOUS
<1>2. f \in [1 .. Len(loaded) -> Objects]
  BY <1>1
<1>3. f \in Seq(Objects) /\ Len(f) = Len(loaded)
  BY <1>1, <1>2
<1> QED
  BY <1>1, <1>2, <1>3 DEF SameFsms

LEMMA CommandTogglesType ==
    ASSUME BoardTypeOK, NEW pin \in Pins, NEW op, CommandToggles(pin, op)
    PROVE  BoardTypeOK' /\ SameFsms
<1> DEFINE Woken == {k \in DOMAIN loaded : Is(k, "FSM_TOGGLE") /\ loaded[k].fp.pin = pin}
           Last(k) == k \in Woken /\ \A j \in Woken : j <= k
           o(k) == [loaded[k] EXCEPT !.on = Commanded(loaded[k], op)]
           f == [k \in DOMAIN loaded |-> IF k \in Woken THEN o(k) ELSE loaded[k]]
           w == [p \in {q \in {pin} : Woken # {}} |-> \E k \in Woken : Last(k) /\ loaded'[k].on]
<1>1. loaded \in Seq(Objects) /\ loaded' = f /\ Drive(w)
  BY DEF BoardTypeOK, CommandToggles
<1>2. \A p \in DOMAIN w : w[p] \in BOOLEAN
  OBVIOUS
<1>3. ASSUME NEW k \in Woken
      PROVE  o(k) \in Objects /\ o(k).fp = loaded[k].fp
  <2>1. loaded[k] \in Objects /\ loaded[k].fp.id \in PinIDs
    BY <1>1 DEF Is, PinIDs
  <2>2. loaded[k] \in [fp : Loads(PinIDs \cup {"FSM_SENTRY"}), on : BOOLEAN]
    BY <2>1, ObjectFields
  <2>3. Commanded(loaded[k], op) \in BOOLEAN
    <3>1. (~loaded[k].on) \in BOOLEAN
      OBVIOUS
    <3> QED
      BY <3>1 DEF Commanded
  <2>4. o(k) \in [fp : Loads(PinIDs \cup {"FSM_SENTRY"}), on : BOOLEAN] /\ o(k).fp = loaded[k].fp
    BY <2>2, <2>3
  <2> QED
    BY <2>4, KindsAreObjects
<1>4. \A k \in DOMAIN loaded : loaded[k] \in Objects
  BY <1>1
<1>5. Woken \subseteq DOMAIN loaded
  OBVIOUS
<1> HIDE DEF Woken, o
<1>6. f \in [DOMAIN loaded -> Objects] /\ \A k \in DOMAIN loaded : f[k].fp = loaded[k].fp
  BY <1>3, <1>4, <1>5
<1> HIDE DEF f, w
<1>7. loaded' \in Seq(Objects) /\ SameFsms
  BY <1>1, <1>6, RewriteType
<1>8. lit' \in [Pins -> BOOLEAN]
  BY <1>1, <1>2, DriveType DEF BoardTypeOK
<1>9. {driving, enable, bridge}' \subseteq BOOLEAN
  BY DEF CommandToggles, BoardTypeOK
<1> QED
  BY <1>7, <1>8, <1>9 DEF BoardTypeOK

LEMMA CommandMotorsType ==
    ASSUME BoardTypeOK, NEW speed, CommandMotors(speed)
    PROVE  BoardTypeOK' /\ SameFsms
<1> DEFINE Woken == {k \in DOMAIN loaded : Is(k, "FSM_MOTORCONTROLLER")}
           o(k) == [loaded[k] EXCEPT !.armed = TRUE]
           f == [k \in DOMAIN loaded |-> IF k \in Woken THEN o(k) ELSE loaded[k]]
           w == [p \in {q \in {LED_BATTERY_FULL} : Woken # {}} |-> ~enable']
<1>1. loaded \in Seq(Objects) /\ loaded' = f /\ Drive(w)
  BY DEF BoardTypeOK, CommandMotors
<1>2. \A p \in DOMAIN w : w[p] \in BOOLEAN
  OBVIOUS
<1>3. ASSUME NEW k \in Woken
      PROVE  o(k) \in Objects /\ o(k).fp = loaded[k].fp
  <2>1. loaded[k] \in Objects /\ loaded[k].fp.id = "FSM_MOTORCONTROLLER"
    BY <1>1 DEF Is
  <2>2. loaded[k] \in [fp : Loads({"FSM_MOTORCONTROLLER"}), armed : BOOLEAN]
    BY <2>1, ObjectFields
  <2>3. o(k) \in [fp : Loads({"FSM_MOTORCONTROLLER"}), armed : BOOLEAN] /\ o(k).fp = loaded[k].fp
    BY <2>2
  <2> QED
    BY <2>3, KindsAreObjects
<1>4. \A k \in DOMAIN loaded : loaded[k] \in Objects
  BY <1>1
<1>5. Woken \subseteq DOMAIN loaded
  OBVIOUS
<1>6. driving' \in BOOLEAN /\ enable' \in BOOLEAN /\ bridge' \in BOOLEAN
  <2>1. driving' = (IF Woken = {} THEN driving ELSE Pwm(speed) # 0)
    BY DEF CommandMotors
  <2>2. enable' = (IF Cardinality(Woken) % 2 = 0 THEN enable ELSE ~enable)
    BY DEF CommandMotors
  <2>3. bridge' = bridge
    BY DEF CommandMotors
  <2>4. driving \in BOOLEAN /\ enable \in BOOLEAN /\ bridge \in BOOLEAN
    BY DEF BoardTypeOK
  <2>5. (Pwm(speed) # 0) \in BOOLEAN /\ (~enable) \in BOOLEAN
    OBVIOUS
  <2> HIDE DEF Woken
  <2> QED
    BY <2>1, <2>2, <2>3, <2>4, <2>5, Zenon
<1> HIDE DEF Woken, o
<1>7. f \in [DOMAIN loaded -> Objects] /\ \A k \in DOMAIN loaded : f[k].fp = loaded[k].fp
  BY <1>3, <1>4, <1>5
<1> HIDE DEF f, w
<1>8. loaded' \in Seq(Objects) /\ SameFsms
  BY <1>1, <1>7, RewriteType
<1>9. lit' \in [Pins -> BOOLEAN]
  BY <1>1, <1>2, DriveType DEF BoardTypeOK
<1> QED
  BY <1>6, <1>8, <1>9 DEF BoardTypeOK

LEMMA CommandType ==
    ASSUME BoardTypeOK, NEW m \in Commands, Command(m)
    PROVE  BoardTypeOK' /\ SameFsms
<1>1. CASE m.id = "FSM_TOGGLE"
  <2>1. m.pin \in Pins
    BY <1>1 DEF Commands
  <2> QED
    BY <1>1, <2>1, CommandTogglesType DEF Command
<1>2. CASE m.id # "FSM_TOGGLE"
  BY <1>2, CommandMotorsType DEF Command
<1> QED
  BY <1>1, <1>2

LEMMA CreateType ==
    ASSUME BoardTypeOK, NEW fp \in Loadable, Create(fp)
    PROVE  /\ BoardTypeOK'
           /\ Len(loaded') = Len(loaded) + 1
           /\ \A k \in DOMAIN loaded : k \in DOMAIN loaded' /\ loaded'[k] = loaded[k]
           /\ loaded'[Len(loaded) + 1] = New(fp)
<1>1. loaded \in Seq(Objects) /\ New(fp) \in Objects /\ loaded' = Append(loaded, New(fp))
  BY NewType DEF BoardTypeOK, Create
<1>2. loaded' \in Seq(Objects)
  BY <1>1
<1>3. lit' \in [Pins -> BOOLEAN]
  BY AllLowType, DriveType DEF BoardTypeOK, Create
<1>4. {driving, enable, bridge}' \subseteq BOOLEAN
  <2>1. (driving /\ fp.id # "FSM_MOTORCONTROLLER") \in BOOLEAN
    OBVIOUS
  <2> QED
    BY <2>1 DEF BoardTypeOK, Create
<1>5. /\ Len(loaded') = Len(loaded) + 1
      /\ \A k \in DOMAIN loaded : k \in DOMAIN loaded' /\ loaded'[k] = loaded[k]
      /\ loaded'[Len(loaded) + 1] = New(fp)
  BY <1>1
<1> QED
  BY <1>2, <1>3, <1>4, <1>5 DEF BoardTypeOK

LEMMA RemovedType ==
    ASSUME loaded \in Seq(Objects), NEW k \in DOMAIN loaded
    PROVE  /\ Removed(k) \in Seq(Objects)
           /\ Len(Removed(k)) = Len(loaded) - 1
           /\ \A j \in 1 .. Len(loaded) - 1 :
                Removed(k)[j] = IF j < k THEN loaded[j] ELSE loaded[j + 1]
<1>1. Len(loaded) \in Nat /\ DOMAIN loaded = 1 .. Len(loaded) /\ k \in 1 .. Len(loaded)
  OBVIOUS
<1>2. Len(loaded) - 1 \in Nat
  BY <1>1
<1>3. Removed(k) \in [1 .. Len(loaded) - 1 -> Objects]
  <2> SUFFICES ASSUME NEW j \in 1 .. Len(loaded) - 1
               PROVE  (IF j < k THEN loaded[j] ELSE loaded[j + 1]) \in Objects
    BY DEF Removed
  <2>1. j \in 1 .. Len(loaded) /\ j + 1 \in 1 .. Len(loaded)
    BY <1>1
  <2> QED
    BY <1>1, <2>1
<1>4. Removed(k) \in Seq(Objects) /\ Len(Removed(k)) = Len(loaded) - 1
  BY <1>2, <1>3
<1> QED
  BY <1>4 DEF Removed

\* Whatever is not removed is still there, in its place or the one before.
LEMMA DestroyType ==
    ASSUME BoardTypeOK, NEW fp \in Loadable, Destroy(fp)
    PROVE  /\ BoardTypeOK'
           /\ \/ \E k \in DOMAIN loaded :
                   /\ FirstOf(fp, k) /\ loaded' = Removed(k)
                   /\ Drive(AllLow(fp))
              \/ /\ \A k \in DOMAIN loaded : loaded[k].fp # fp
                 /\ UNCHANGED <<loaded, lit>>
           /\ \A j \in DOMAIN loaded : loaded[j].fp # fp =>
                \E i \in DOMAIN loaded' : loaded'[i] = loaded[j]
<1>1. {driving, enable, bridge}' \subseteq BOOLEAN
  BY DEF Destroy, BoardTypeOK
<1>2. CASE \E k \in DOMAIN loaded :
              FirstOf(fp, k) /\ loaded' = Removed(k) /\ Drive(AllLow(fp))
  <2>1. PICK k \in DOMAIN loaded :
              FirstOf(fp, k) /\ loaded' = Removed(k) /\ Drive(AllLow(fp))
    BY <1>2
  <2>2. loaded \in Seq(Objects)
    BY DEF BoardTypeOK
  <2>3. loaded' \in Seq(Objects) /\ Len(loaded') = Len(loaded) - 1
        /\ \A j \in 1 .. Len(loaded) - 1 :
             loaded'[j] = IF j < k THEN loaded[j] ELSE loaded[j + 1]
    BY <2>1, <2>2, RemovedType
  <2>4. lit' \in [Pins -> BOOLEAN]
    BY <2>1, AllLowType, DriveType DEF BoardTypeOK
  <2>5. ASSUME NEW j \in DOMAIN loaded, loaded[j].fp # fp
        PROVE  \E i \in DOMAIN loaded' : loaded'[i] = loaded[j]
    <3>1. Len(loaded) \in Nat /\ j \in 1 .. Len(loaded) /\ k \in 1 .. Len(loaded) /\ j # k
      BY <2>1, <2>2, <2>5 DEF FirstOf
    <3>2. DOMAIN loaded' = 1 .. Len(loaded) - 1
      BY <2>3
    <3>3. CASE j < k
      <4>1. j \in DOMAIN loaded' /\ loaded'[j] = loaded[j]
        BY <2>3, <3>1, <3>2, <3>3
      <4> QED
        BY <4>1
    <3>4. CASE k < j
      <4>1. j - 1 \in DOMAIN loaded' /\ loaded'[j - 1] = loaded[(j - 1) + 1] /\ (j - 1) + 1 = j
        BY <2>3, <3>1, <3>2, <3>4
      <4> QED
        BY <4>1
    <3> QED
      BY <3>1, <3>3, <3>4
  <2> QED
    BY <1>1, <1>2, <2>3, <2>4, <2>5 DEF BoardTypeOK
<1>3. CASE (\A k \in DOMAIN loaded : loaded[k].fp # fp) /\ UNCHANGED <<loaded, lit>>
  BY <1>1, <1>3 DEF BoardTypeOK
<1>4. \/ \E k \in DOMAIN loaded : FirstOf(fp, k) /\ loaded' = Removed(k) /\ Drive(AllLow(fp))
      \/ (\A k \in DOMAIN loaded : loaded[k].fp # fp) /\ UNCHANGED <<loaded, lit>>
  BY DEF Destroy, FirstOf
<1> QED
  BY <1>2, <1>3, <1>4

(***************************************************************************)
(* Types of the session                                                    *)
(***************************************************************************)

LEMMA RequestKinds ==
    ASSUME NEW m \in Requests
    PROVE  /\ m.kind \in {"CREATE", "DESTROY", "LIST", "COMMAND"}
           /\ m.kind \in {"CREATE", "DESTROY"} => m.fp \in Loadable
           /\ m.kind = "LIST" => m.query \in Nat
           /\ m.kind = "COMMAND" => m.msg \in Commands
BY DEF Requests

LEMMA HeadType ==
    ASSUME NEW S, NEW s \in Seq(S), s # <<>>
    PROVE  /\ Head(s) \in S /\ Head(s) = s[1] /\ 1 \in DOMAIN s
           /\ Tail(s) \in Seq(S) /\ Len(Tail(s)) = Len(s) - 1
           /\ \A i \in 1 .. Len(s) - 1 : Tail(s)[i] = s[i + 1]
OBVIOUS

LEMMA FpsType ==
    ASSUME NEW s \in Seq(Objects)
    PROVE  /\ Fps(s) \in Seq(Loadable) /\ Len(Fps(s)) = Len(s)
           /\ \A k \in 1 .. Len(s) : Fps(s)[k] = s[k].fp
<1>1. DOMAIN s = 1 .. Len(s) /\ Len(s) \in Nat
  OBVIOUS
<1>2. \A k \in 1 .. Len(s) : s[k].fp \in Loadable
  BY <1>1, ObjectFields
<1>3. Fps(s) \in [1 .. Len(s) -> Loadable]
  BY <1>1, <1>2 DEF Fps
<1> QED
  BY <1>1, <1>3 DEF Fps

LEMMA SendType ==
    ASSUME rx \in Seq(Requests), NEW m \in Requests, Send(m)
    PROVE  rx' \in Seq(Requests) /\ rx' = Append(rx, m)
BY DEF Send

LEMMA BoardUnchanged ==
    ASSUME BoardTypeOK, UNCHANGED board
    PROVE  BoardTypeOK'
BY DEF BoardTypeOK, board

LEMMA HandleType ==
    ASSUME TypeOK, rx # <<>>, Handle(Head(rx))
    PROVE  BoardTypeOK' /\ line' \in Seq([query : Nat, fsms : Seq(Loadable)])
<1> DEFINE m == Head(rx)
<1>1. m \in Requests
  BY HeadType DEF TypeOK
<1>2. BoardTypeOK /\ line \in Seq([query : Nat, fsms : Seq(Loadable)])
  BY DEF TypeOK
<1>3. CASE m.kind = "CREATE" /\ Create(m.fp) /\ UNCHANGED line
  BY <1>1, <1>2, <1>3, RequestKinds, CreateType
<1>4. CASE m.kind = "DESTROY" /\ Destroy(m.fp) /\ UNCHANGED line
  BY <1>1, <1>2, <1>4, RequestKinds, DestroyType
<1>5. CASE m.kind = "COMMAND" /\ Command(m.msg) /\ UNCHANGED line
  BY <1>1, <1>2, <1>5, RequestKinds, CommandType
<1>6. CASE /\ m.kind = "LIST"
           /\ line' = Append(line, [query |-> m.query, fsms |-> Fps(loaded)])
           /\ UNCHANGED board
  <2>1. m.query \in Nat
    BY <1>1, <1>6, RequestKinds
  <2>2. Fps(loaded) \in Seq(Loadable)
    BY <1>2, FpsType DEF BoardTypeOK
  <2>3. [query |-> m.query, fsms |-> Fps(loaded)] \in [query : Nat, fsms : Seq(Loadable)]
    BY <2>1, <2>2
  <2> QED
    BY <1>2, <1>6, <2>3, BoardUnchanged
<1> QED
  BY <1>3, <1>4, <1>5, <1>6 DEF Handle

LEMMA ConsoleType ==
    ASSUME TypeOK, Console
    PROVE  TypeOK'
<1> USE DEF TypeOK
<1>1. CASE CallCreate
  <2>1. PICK fp \in HostFsms : Send([kind |-> "CREATE", fp |-> fp])
    BY <1>1 DEF CallCreate
  <2>2. [kind |-> "CREATE", fp |-> fp] \in Requests
    BY SessionAssumption DEF Requests
  <2>3. rx' \in Seq(Requests)
    BY <2>1, <2>2, SendType
  <2>4. BoardTypeOK' /\ UNCHANGED <<pc, fsmv, line, queries>>
    BY <1>1, BoardUnchanged DEF CallCreate
  <2>5. sends' \in Nat
    BY <1>1 DEF CallCreate
  <2>6. current' \in BOOLEAN
    BY <1>1 DEF CallCreate
  <2> QED
    BY <2>3, <2>4, <2>5, <2>6
<1>2. CASE CallDestroy
  <2>1. PICK fp \in HostFsms : Send([kind |-> "DESTROY", fp |-> fp])
    BY <1>2 DEF CallDestroy
  <2>2. [kind |-> "DESTROY", fp |-> fp] \in Requests
    BY SessionAssumption DEF Requests
  <2>3. rx' \in Seq(Requests)
    BY <2>1, <2>2, SendType
  <2>4. BoardTypeOK' /\ UNCHANGED <<pc, fsmv, line, queries>>
    BY <1>2, BoardUnchanged DEF CallDestroy
  <2>5. sends' \in Nat
    BY <1>2 DEF CallDestroy
  <2>6. current' \in BOOLEAN
    BY <1>2 DEF CallDestroy
  <2> QED
    BY <2>3, <2>4, <2>5, <2>6
<1>3. CASE CallCommand
  <2>1. PICK m \in HostCommands : Send([kind |-> "COMMAND", msg |-> m])
    BY <1>3 DEF CallCommand
  <2>2. [kind |-> "COMMAND", msg |-> m] \in Requests
    BY SessionAssumption DEF Requests
  <2>3. rx' \in Seq(Requests)
    BY <2>1, <2>2, SendType
  <2>4. BoardTypeOK' /\ UNCHANGED <<pc, fsmv, line, queries, current>>
    BY <1>3, BoardUnchanged DEF CallCommand
  <2>5. sends' \in Nat
    BY <1>3 DEF CallCommand
  <2> QED
    BY <2>3, <2>4, <2>5
<1>4. CASE SetBridge
  <2>1. (~bridge) \in BOOLEAN
    OBVIOUS
  <2>2. BoardTypeOK'
    BY <1>4, <2>1 DEF SetBridge, BoardTypeOK
  <2>3. sends' \in Nat
    BY <1>4 DEF SetBridge
  <2>4. UNCHANGED <<pc, fsmv, rx, line, queries, current>>
    BY <1>4 DEF SetBridge
  <2> QED
    BY <2>2, <2>3, <2>4
<1>5. CASE CallClear
  <2>1. [kind |-> "LIST", query |-> queries + 1] \in Requests
    BY DEF Requests
  <2>2. rx' \in Seq(Requests)
    BY <1>5, <2>1, SendType DEF CallClear
  <2>3. BoardTypeOK' /\ UNCHANGED line
    BY <1>5, BoardUnchanged DEF CallClear
  <2>4. sends' \in Nat /\ queries' \in Nat
    BY <1>5 DEF CallClear
  <2>5. pc' \in {"idle", "listing", "destroying"} /\ fsmv' \in Seq(Loadable)
    BY <1>5 DEF CallClear
  <2>6. current' \in BOOLEAN
    BY <1>5 DEF CallClear
  <2> QED
    BY <2>2, <2>3, <2>4, <2>5, <2>6
<1>6. CASE Arrive
  <2>1. line' \in Seq([query : Nat, fsms : Seq(Loadable)])
        /\ Head(line) \in [query : Nat, fsms : Seq(Loadable)]
    BY <1>6, HeadType DEF Arrive
  <2>2. fsmv' \in Seq(Loadable) /\ pc' \in {"idle", "listing", "destroying"}
    BY <1>6, <2>1 DEF Arrive
  <2>3. current' \in BOOLEAN
    <3>1. (Head(line).query = queries) \in BOOLEAN
      OBVIOUS
    <3> QED
      BY <1>6, <3>1 DEF Arrive
  <2>4. BoardTypeOK' /\ UNCHANGED <<rx, sends, queries>>
    BY <1>6, BoardUnchanged DEF Arrive
  <2> QED
    BY <2>1, <2>2, <2>3, <2>4
<1>7. CASE GiveUp
  BY <1>7, BoardUnchanged DEF GiveUp
<1>8. CASE DestroyNext
  <2>1. CASE fsmv = <<>>
    BY <1>8, <2>1, BoardUnchanged DEF DestroyNext
  <2>2. CASE fsmv # <<>>
    <3>1. Head(fsmv) \in Loadable /\ Tail(fsmv) \in Seq(Loadable)
      BY <2>2, HeadType
    <3>2. [kind |-> "DESTROY", fp |-> Head(fsmv)] \in Requests
      BY <3>1 DEF Requests
    <3>3. rx' \in Seq(Requests)
      BY <1>8, <2>2, <3>2, SendType DEF DestroyNext
    <3> QED
      BY <1>8, <2>2, <3>1, <3>3, BoardUnchanged DEF DestroyNext
  <2> QED
    BY <2>1, <2>2
<1> QED
  BY <1>1, <1>2, <1>3, <1>4, <1>5, <1>6, <1>7, <1>8 DEF Console

LEMMA NextType ==
    ASSUME TypeOK, [Next]_session
    PROVE  TypeOK'
<1>1. CASE Console
  BY <1>1, ConsoleType
<1>2. CASE SerialCallback
  <2>1. BoardTypeOK' /\ line' \in Seq([query : Nat, fsms : Seq(Loadable)])
    BY <1>2, HandleType DEF SerialCallback
  <2>2. rx' \in Seq(Requests)
    BY <1>2, HeadType DEF SerialCallback, TypeOK
  <2> QED
    BY <1>2, <2>1, <2>2 DEF SerialCallback, host, TypeOK
<1>3. CASE Step
  BY <1>3, StepFsmType DEF Step, host, TypeOK
<1>4. CASE UNCHANGED session
  BY <1>4, BoardUnchanged DEF session, board, TypeOK
<1> QED
  BY <1>1, <1>2, <1>3, <1>4 DEF Next

LEMMA InitType ==
    ASSUME NEW fps \in Seq(Loadable), Booted(fps)
    PROVE  TypeOK
<1>1. loaded \in Seq(Objects)
  <2>1. \A k \in DOMAIN fps : New(fps[k]) \in Objects
    BY NewType
  <2>2. DOMAIN fps = 1 .. Len(fps) /\ Len(fps) \in Nat
    OBVIOUS
  <2>3. loaded \in [1 .. Len(fps) -> Objects]
    BY <2>1, <2>2 DEF Booted
  <2> QED
    BY <2>2, <2>3
<1>2. BoardTypeOK
  <2>1. lit \in [Pins -> BOOLEAN]
    BY DEF Booted
  <2>2. {driving, enable, bridge} \subseteq BOOLEAN
    BY DEF Booted
  <2> QED
    BY <1>1, <2>1, <2>2 DEF BoardTypeOK
<1>3. current \in BOOLEAN
  BY DEF Booted
<1> QED
  BY <1>2, <1>3 DEF Booted, TypeOK

\* The levels, the objects and the messages are always what Outputs and
\* HostSession say they are: no brightness leaves 0 .. 255 and no level of the
\* battery monitor its four LEDs, whatever is created, commanded and stepped.
THEOREM SessionTypes == Spec => []TypeOK
<1>1. Init => TypeOK
  BY SessionAssumption, InitType DEF Init
<1>2. TypeOK /\ [Next]_session => TypeOK'
  BY NextType
<1> QED
  BY <1>1, <1>2, PTL DEF Spec

(***************************************************************************)
(* Lit LEDs have an owner                                                  *)
(***************************************************************************)

Owned(p) == \E k \in DOMAIN loaded : p \in LowPins(loaded[k].fp)

LEMMA OwnedStays ==
    ASSUME SameFsms, NEW p, Owned(p)
    PROVE  Owned(p)'
BY DEF Owned, SameFsms

\* What a step writes is dark, or untidy, or belongs to an FSM.
LEMMA DriveOwned ==
    ASSUME LitIsOwned, SameFsms, NEW w, Drive(w),
           \A p \in DOMAIN w : p \in UntidyPins \/ w[p] = FALSE \/ Owned(p)
    PROVE  LitIsOwned'
<1> SUFFICES ASSUME NEW p \in Pins \ UntidyPins, lit'[p]
             PROVE  Owned(p)'
  BY DEF LitIsOwned, Owned
<1>1. CASE p \in DOMAIN w
  <2>1. lit'[p] = w[p]
    BY <1>1 DEF Drive
  <2>2. ~(w[p] = FALSE)
    BY <2>1
  <2> QED
    BY <1>1, <2>2, OwnedStays
<1>2. CASE p \notin DOMAIN w
  <2>1. lit'[p] = lit[p]
    BY <1>2 DEF Drive
  <2>2. lit[p]
    BY <2>1
  <2>3. Owned(p)
    BY <2>2 DEF LitIsOwned, Owned
  <2> QED
    BY <2>3, OwnedStays
<1> QED
  BY <1>1, <1>2

LEMMA SamePinsOwned ==
    ASSUME LitIsOwned, SameFsms, UNCHANGED lit
    PROVE  LitIsOwned'
<1> SUFFICES ASSUME NEW p \in Pins \ UntidyPins, lit'[p]
             PROVE  Owned(p)'
  BY DEF LitIsOwned, Owned
<1>1. Owned(p)
  BY DEF LitIsOwned, Owned
<1> QED
  BY <1>1, OwnedStays

LEMMA OwnsIts ==
    ASSUME NEW k \in DOMAIN loaded
    PROVE  \A p \in LowPins(loaded[k].fp) : Owned(p)
BY DEF Owned

\* Fade, Blink and Toggle pull their own pin low, the tree and the battery
\* monitor all of theirs.
LEMMA WhatIsPulledLow ==
    ASSUME NEW k \in DOMAIN loaded
    PROVE  /\ loaded[k].fp.id \in {"FSM_FADE", "FSM_BLINK", "FSM_TOGGLE"} =>
                Owned(loaded[k].fp.pin)
           /\ loaded[k].fp.id = "FSM_CHRISTMASTREE" => \A p \in TreePins : Owned(p)
           /\ loaded[k].fp.id = "FSM_BATTERYMONITOR" => \A p \in BatteryPins : Owned(p)
BY OwnsIts DEF LowPins

LEMMA StepOwned ==
    ASSUME BoardTypeOK, LitIsOwned, StepFsm
    PROVE  LitIsOwned'
<1>1. SameFsms
  BY StepFsmType
<1> SUFFICES ASSUME NEW k \in DOMAIN loaded,
                    \/ StepFade(k) \/ StepTree(k) \/ StepBlink(k) \/ StepToggle(k)
                    \/ StepBattery(k) \/ StepMimic(k) \/ TimeOut(k)
             PROVE  LitIsOwned'
  BY DEF StepFsm
<1>2. CASE StepFade(k)
  <2> DEFINE w == [p \in {loaded[k].fp.pin} |-> Shines(Faded(loaded[k].fader))]
  <2>1. Drive(w) /\ loaded[k].fp.id = "FSM_FADE"
    BY <1>2 DEF StepFade, Is
  <2>2. \A p \in DOMAIN w : Owned(p)
    BY <2>1, WhatIsPulledLow
  <2> HIDE DEF w
  <2> QED
    BY <1>1, <2>1, <2>2, DriveOwned
<1>3. CASE StepTree(k)
  <2> DEFINE Wrote(p) == \E n \in Written(loaded[k].tree) :
                 TreePin(n) = p /\ Shines(TreeStepped(loaded[k].tree).fader[n])
             w == [p \in {TreePin(n) : n \in Written(loaded[k].tree)} |-> Wrote(p)]
  <2>1. Drive(w) /\ loaded[k].fp.id = "FSM_CHRISTMASTREE"
    BY <1>3 DEF StepTree, Is
  <2>2. DOMAIN w \subseteq TreePins
    BY DEF TreePins, Written
  <2>3. \A p \in DOMAIN w : Owned(p)
    BY <2>1, <2>2, WhatIsPulledLow
  <2> HIDE DEF w
  <2> QED
    BY <1>1, <2>1, <2>3, DriveOwned
<1>4. CASE StepBlink(k)
  <2> DEFINE w == [p \in {loaded[k].fp.pin} |-> ~loaded[k].on]
  <2>1. Drive(w) /\ loaded[k].fp.id = "FSM_BLINK"
    BY <1>4 DEF StepBlink, Is
  <2>2. \A p \in DOMAIN w : Owned(p)
    BY <2>1, WhatIsPulledLow
  <2> HIDE DEF w
  <2> QED
    BY <1>1, <2>1, <2>2, DriveOwned
<1>5. CASE StepToggle(k)
  <2> DEFINE w == [p \in {loaded[k].fp.pin} |-> loaded[k].on]
  <2>1. Drive(w) /\ loaded[k].fp.id = "FSM_TOGGLE"
    BY <1>5 DEF StepToggle, Is
  <2>2. \A p \in DOMAIN w : Owned(p)
    BY <2>1, WhatIsPulledLow
  <2> HIDE DEF w
  <2> QED
    BY <1>1, <2>1, <2>2, DriveOwned
<1>6. CASE StepBattery(k)
  <2> DEFINE next == (loaded[k].level + 1) % 5
             w == IF next = 0 THEN AllLow(loaded[k].fp) ELSE [p \in {BatteryPin[next]} |-> TRUE]
  <2>1. Drive(w) /\ loaded[k].fp.id = "FSM_BATTERYMONITOR"
    BY <1>6 DEF StepBattery, Is
  <2>2. loaded[k].level \in 0 .. 4
    BY <2>1, ObjectFields DEF BoardTypeOK
  <2>3. \A p \in DOMAIN w : w[p] = FALSE \/ Owned(p)
    <3>1. CASE next = 0
      BY <3>1 DEF AllLow
    <3>2. CASE next # 0
      <4>1. BatteryPin[next] \in BatteryPins
        BY <2>2, <3>2, NextLevel
      <4>2. DOMAIN w = {BatteryPin[next]}
        BY <3>2
      <4> QED
        BY <2>1, <4>1, <4>2, WhatIsPulledLow
    <3> QED
      BY <3>1, <3>2
  <2> HIDE DEF w
  <2> QED
    BY <1>1, <2>1, <2>3, DriveOwned
<1>7. CASE StepMimic(k)
  <2> DEFINE w == [p \in {loaded[k].fp.pin} |-> bridge]
  <2>1. Drive(w) /\ loaded[k].fp.id = "FSM_MIMIC"
    BY <1>7 DEF StepMimic, Is
  <2>2. loaded[k].fp \in Loadable
    BY ObjectFields DEF BoardTypeOK
  <2>3. \A p \in DOMAIN w : p \in UntidyPins
    BY <2>1, <2>2 DEF UntidyPins
  <2> HIDE DEF w
  <2> QED
    BY <1>1, <2>1, <2>3, DriveOwned
<1>8. CASE TimeOut(k)
  BY <1>1, <1>8, SamePinsOwned DEF TimeOut
<1> QED
  BY <1>2, <1>3, <1>4, <1>5, <1>6, <1>7, <1>8

\* The last Toggle on a pin writes it; the motors' debugging LED is untidy.
LEMMA CommandOwned ==
    ASSUME BoardTypeOK, LitIsOwned, NEW m \in Commands, Command(m)
    PROVE  LitIsOwned'
<1>1. SameFsms
  BY CommandType
<1>2. CASE m.id = "FSM_TOGGLE"
  <2> DEFINE Woken == {k \in DOMAIN loaded : Is(k, "FSM_TOGGLE") /\ loaded[k].fp.pin = m.pin}
             Last(k) == k \in Woken /\ \A j \in Woken : j <= k
             w == [p \in {q \in {m.pin} : Woken # {}} |-> \E k \in Woken : Last(k) /\ loaded'[k].on]
  <2>1. Drive(w)
    BY <1>2 DEF Command, CommandToggles
  <2>2. \A p \in DOMAIN w : Owned(p)
    <3> SUFFICES ASSUME NEW p \in DOMAIN w
                 PROVE  Owned(p)
      OBVIOUS
    <3>1. PICK k \in Woken : p = m.pin
      OBVIOUS
    <3> QED
      BY <3>1, WhatIsPulledLow DEF Is
  <2> HIDE DEF w
  <2> QED
    BY <1>1, <2>1, <2>2, DriveOwned
<1>3. CASE m.id # "FSM_TOGGLE"
  <2> DEFINE Woken == {k \in DOMAIN loaded : Is(k, "FSM_MOTORCONTROLLER")}
             w == [p \in {q \in {LED_BATTERY_FULL} : Woken # {}} |-> ~enable']
  <2>1. Drive(w)
    BY <1>3 DEF Command, CommandMotors
  <2>2. \A p \in DOMAIN w : p \in UntidyPins
    BY DEF UntidyPins
  <2> HIDE DEF w
  <2> QED
    BY <1>1, <2>1, <2>2, DriveOwned
<1> QED
  BY <1>2, <1>3

LEMMA CreateOwned ==
    ASSUME BoardTypeOK, LitIsOwned, NEW fp \in Loadable, Create(fp)
    PROVE  LitIsOwned'
<1> SUFFICES ASSUME NEW p \in Pins \ UntidyPins, lit'[p]
             PROVE  \E k \in DOMAIN loaded' : p \in LowPins(loaded'[k].fp)
  BY DEF LitIsOwned
<1>1. Drive(AllLow(fp))
  BY DEF Create
<1>2. lit[p]
  BY <1>1 DEF Drive, AllLow
<1>3. PICK k \in DOMAIN loaded : p \in LowPins(loaded[k].fp)
  BY <1>2 DEF LitIsOwned
<1>4. k \in DOMAIN loaded' /\ loaded'[k] = loaded[k]
  BY CreateType
<1> QED
  BY <1>3, <1>4

\* The destructor darkens every pin of the FSM it destroys, so what is still
\* lit belongs to an FSM with another fingerprint, which stays.
LEMMA DestroyOwned ==
    ASSUME BoardTypeOK, LitIsOwned, NEW fp \in Loadable, Destroy(fp)
    PROVE  LitIsOwned'
<1>1. CASE Drive(AllLow(fp))
  <2> SUFFICES ASSUME NEW p \in Pins \ UntidyPins, lit'[p]
               PROVE  \E i \in DOMAIN loaded' : p \in LowPins(loaded'[i].fp)
    BY DEF LitIsOwned
  <2>1. p \notin LowPins(fp) /\ lit[p]
    BY <1>1 DEF Drive, AllLow
  <2>2. PICK k \in DOMAIN loaded : p \in LowPins(loaded[k].fp)
    BY <2>1 DEF LitIsOwned
  <2>3. PICK i \in DOMAIN loaded' : loaded'[i] = loaded[k]
    BY <2>1, <2>2, DestroyType
  <2> QED
    BY <2>2, <2>3
<1>2. CASE UNCHANGED <<loaded, lit>>
  BY <1>2 DEF LitIsOwned
<1> QED
  BY <1>1, <1>2, DestroyType

LEMMA NextOwned ==
    ASSUME TypeOK, LitIsOwned, [Next]_session
    PROVE  LitIsOwned'
<1>1. BoardTypeOK
  BY DEF TypeOK
<1>2. CASE UNCHANGED <<loaded, lit>>
  BY <1>2 DEF LitIsOwned
<1>3. CASE Console
  BY <1>2, <1>3
     DEF Console, CallCreate, CallDestroy, CallCommand, SetBridge, CallClear, Arrive,
         GiveUp, DestroyNext, board
<1>4. CASE SerialCallback
  <2> DEFINE m == Head(rx)
  <2>1. m \in Requests /\ Handle(m)
    BY <1>4, HeadType DEF SerialCallback, TypeOK
  <2> QED
    BY <1>1, <1>2, <2>1, RequestKinds, CreateOwned, DestroyOwned, CommandOwned
       DEF Handle, board
<1>5. CASE Step
  BY <1>1, <1>5, StepOwned DEF Step
<1>6. CASE UNCHANGED session
  BY <1>2, <1>6 DEF session
<1> QED
  BY <1>3, <1>4, <1>5, <1>6 DEF Next

\* No LED outlives the FSMs that would put it out, for any number of FSMs that
\* share it and any order of creation, destruction, commands and steps.
THEOREM LitHasAnOwner == Spec => []LitIsOwned
<1>1. Init => LitIsOwned
  BY DEF Init, Booted, LitIsOwned
<1>2. TypeOK /\ LitIsOwned /\ [Next]_session => LitIsOwned'
  BY NextOwned
<1> QED
  BY <1>1, <1>2, SessionTypes, PTL DEF Spec

(***************************************************************************)
(* Motors that run are watched                                             *)
(***************************************************************************)

\* No motor starts, and every MotorController is still there as it was.
LEMMA WatchKept ==
    ASSUME Watched, driving' => driving,
           \A k \in DOMAIN loaded : Is(k, "FSM_MOTORCONTROLLER") =>
                \E i \in DOMAIN loaded' : loaded'[i] = loaded[k]
    PROVE  Watched'
<1> SUFFICES ASSUME driving'
             PROVE  \E i \in DOMAIN loaded' :
                        loaded'[i].fp.id = "FSM_MOTORCONTROLLER" /\ loaded'[i].armed
  BY DEF Watched, Is
<1>1. PICK k \in DOMAIN loaded : Is(k, "FSM_MOTORCONTROLLER") /\ loaded[k].armed
  BY DEF Watched
<1>2. PICK i \in DOMAIN loaded' : loaded'[i] = loaded[k]
  BY <1>1
<1> QED
  BY <1>1, <1>2 DEF Is

\* A step of another FSM changes no object but its own.
LEMMA OneObjectChanges ==
    ASSUME BoardTypeOK, NEW k \in DOMAIN loaded,
           \/ StepFade(k) \/ StepTree(k) \/ StepBlink(k) \/ StepToggle(k)
           \/ StepBattery(k) \/ StepMimic(k)
    PROVE  /\ loaded[k].fp.id # "FSM_MOTORCONTROLLER"
           /\ \A j \in DOMAIN loaded : j # k => loaded'[j] = loaded[j]
           /\ UNCHANGED driving
<1>1. CASE StepFade(k)
  BY <1>1 DEF StepFade, Is
<1>2. CASE StepTree(k)
  BY <1>2 DEF StepTree, Is
<1>3. CASE StepBlink(k)
  BY <1>3 DEF StepBlink, Is
<1>4. CASE StepToggle(k)
  BY <1>4 DEF StepToggle, Is
<1>5. CASE StepBattery(k)
  BY <1>5 DEF StepBattery, Is
<1>6. CASE StepMimic(k)
  BY <1>6 DEF StepMimic, Is
<1> QED
  BY <1>1, <1>2, <1>3, <1>4, <1>5, <1>6

LEMMA StepWatched ==
    ASSUME BoardTypeOK, Watched, StepFsm
    PROVE  Watched'
<1>1. DOMAIN loaded' = DOMAIN loaded
  BY StepFsmType DEF SameFsms
<1> SUFFICES ASSUME NEW k \in DOMAIN loaded,
                    \/ StepFade(k) \/ StepTree(k) \/ StepBlink(k) \/ StepToggle(k)
                    \/ StepBattery(k) \/ StepMimic(k) \/ TimeOut(k)
             PROVE  Watched'
  BY DEF StepFsm
<1>2. CASE TimeOut(k)
  BY <1>2 DEF TimeOut, Watched
<1>3. CASE ~TimeOut(k)
  <2>1. /\ loaded[k].fp.id # "FSM_MOTORCONTROLLER"
        /\ \A j \in DOMAIN loaded : j # k => loaded'[j] = loaded[j]
        /\ UNCHANGED driving
    BY <1>3, OneObjectChanges
  <2>2. \A j \in DOMAIN loaded : Is(j, "FSM_MOTORCONTROLLER") =>
            j \in DOMAIN loaded' /\ loaded'[j] = loaded[j]
    BY <1>1, <2>1 DEF Is
  <2> QED
    BY <2>1, <2>2, WatchKept
<1> QED
  BY <1>2, <1>3

\* A speed arms every MotorController it is given to.
LEMMA CommandWatched ==
    ASSUME BoardTypeOK, Watched, NEW m \in Commands, Command(m)
    PROVE  Watched'
<1>1. CASE m.id = "FSM_TOGGLE"
  <2>1. \A k \in DOMAIN loaded : Is(k, "FSM_MOTORCONTROLLER") =>
            k \in DOMAIN loaded' /\ loaded'[k] = loaded[k]
    BY <1>1 DEF Command, CommandToggles, Is
  <2>2. UNCHANGED driving
    BY <1>1 DEF Command, CommandToggles
  <2> QED
    BY <2>1, <2>2, WatchKept
<1>2. CASE m.id # "FSM_TOGGLE"
  <2> DEFINE Woken == {k \in DOMAIN loaded : Is(k, "FSM_MOTORCONTROLLER")}
             f == [k \in DOMAIN loaded |->
                     IF k \in Woken THEN [loaded[k] EXCEPT !.armed = TRUE] ELSE loaded[k]]
  <2>1. loaded' = f /\ driving' = (IF Woken = {} THEN driving ELSE Pwm(m.speed) # 0)
    BY <1>2 DEF Command, CommandMotors
  <2>2. CASE Woken = {}
    <3>1. \A k \in DOMAIN loaded : ~Is(k, "FSM_MOTORCONTROLLER")
      BY <2>2
    <3>2. driving' = driving
      BY <2>1, <2>2
    <3> QED
      BY <3>1, <3>2, WatchKept
  <2>3. CASE Woken # {}
    <3>1. PICK k \in Woken : TRUE
      BY <2>3
    <3>2. loaded[k].fp.id = "FSM_MOTORCONTROLLER" /\ k \in DOMAIN loaded
      BY DEF Is
    <3>3. loaded[k] \in [fp : Loads({"FSM_MOTORCONTROLLER"}), armed : BOOLEAN]
      BY <3>2, ObjectFields DEF BoardTypeOK
    <3>4. k \in DOMAIN loaded' /\ loaded'[k] = [loaded[k] EXCEPT !.armed = TRUE]
      BY <2>1, <3>2
    <3>5. loaded'[k].armed /\ loaded'[k].fp = loaded[k].fp
      BY <3>3, <3>4
    <3> QED
      BY <3>2, <3>4, <3>5 DEF Watched, Is
  <2> QED
    BY <2>2, <2>3
<1> QED
  BY <1>1, <1>2

LEMMA CreateWatched ==
    ASSUME BoardTypeOK, Watched, NEW fp \in Loadable, Create(fp)
    PROVE  Watched'
<1>1. \A k \in DOMAIN loaded : k \in DOMAIN loaded' /\ loaded'[k] = loaded[k]
  BY CreateType
<1>2. driving' => driving
  BY DEF Create
<1> QED
  BY <1>1, <1>2, WatchKept

LEMMA DestroyWatched ==
    ASSUME BoardTypeOK, Watched, NEW fp \in Loadable, Destroy(fp),
           fp.id # "FSM_MOTORCONTROLLER"
    PROVE  Watched'
<1>1. \A k \in DOMAIN loaded : Is(k, "FSM_MOTORCONTROLLER") =>
          \E i \in DOMAIN loaded' : loaded'[i] = loaded[k]
  BY DestroyType DEF Is
<1>2. UNCHANGED driving
  BY DEF Destroy
<1> QED
  BY <1>1, <1>2, WatchKept

\* The one way running motors lose their timeout.
WatchLost == /\ rx # <<>> /\ Head(rx).kind = "DESTROY"
             /\ Head(rx).fp.id = "FSM_MOTORCONTROLLER"

LEMMA NextWatched ==
    ASSUME TypeOK, [Next]_session, Watched, ~WatchLost
    PROVE  Watched'
<1>1. BoardTypeOK
  BY DEF TypeOK
<1>2. CASE UNCHANGED <<loaded, driving>>
  BY <1>2 DEF Watched, Is
<1>3. CASE Console
  BY <1>2, <1>3
     DEF Console, CallCreate, CallDestroy, CallCommand, SetBridge, CallClear, Arrive,
         GiveUp, DestroyNext, board
<1>4. CASE SerialCallback
  <2> DEFINE m == Head(rx)
  <2>1. rx # <<>> /\ m \in Requests /\ Handle(m)
    BY <1>4, HeadType DEF SerialCallback, TypeOK
  <2>2. CASE m.kind = "CREATE" /\ Create(m.fp)
    BY <1>1, <2>1, <2>2, RequestKinds, CreateWatched
  <2>3. CASE m.kind = "DESTROY" /\ Destroy(m.fp)
    BY <1>1, <2>1, <2>3, RequestKinds, DestroyWatched DEF WatchLost
  <2>4. CASE m.kind = "COMMAND" /\ Command(m.msg)
    BY <1>1, <2>1, <2>4, RequestKinds, CommandWatched
  <2>5. CASE UNCHANGED board
    BY <1>2, <2>5 DEF board
  <2> QED
    BY <2>1, <2>2, <2>3, <2>4, <2>5 DEF Handle
<1>5. CASE Step
  BY <1>1, <1>5, StepWatched DEF Step
<1>6. CASE UNCHANGED session
  BY <1>2, <1>6 DEF session
<1> QED
  BY <1>3, <1>4, <1>5, <1>6 DEF Next

\* Motors that run lose their timeout through a DESTROY of a MotorController
\* and in no other way, whatever else is loaded, sent and stepped.
THEOREM WatchdogIsKept == Spec => WatchdogLostOnlyByDestroy
<1>1. TypeOK /\ [Next]_session => [Watched /\ ~Watched' => WatchLost]_session
  BY NextWatched
<1>2. Spec => [][Watched /\ ~Watched' => WatchLost]_session
  BY <1>1, SessionTypes, PTL DEF Spec
<1> QED
  BY <1>2 DEF WatchLost, WatchdogLostOnlyByDestroy

(***************************************************************************)
(* The fifth fader of a tree keeps still                                   *)
(***************************************************************************)

\* The emergency fader is dark, and disabled once the tree spins.
Quiet(tree) ==
    /\ tree.fader[4].brightness = 0
    /\ tree.state = "Spinning" => ~tree.fader[4].enabled

TreesAreQuiet ==
    \A k \in DOMAIN loaded : loaded[k].fp.id = "FSM_CHRISTMASTREE" => Quiet(loaded[k].tree)

LEMMA TransitionQuiet ==
    ASSUME NEW tree \in Trees, Quiet(tree)
    PROVE  /\ Transition(tree).fader[4].brightness = 0
           /\ ~Transition(tree).fader[4].enabled
<1>1. tree.target \in Spinners /\ tree.fader \in [Lights -> Faders] /\ 4 \in Lights
  BY DEF Trees, Lights
<1>2. tree.target # 4 /\ tree.fader[4] \in Faders
  BY <1>1 DEF Spinners
<1>3. Frozen(tree.fader[4]).brightness = 0 /\ ~Frozen(tree.fader[4]).enabled
  BY <1>2 DEF Quiet, Frozen, Faders
<1>4. CASE tree.state = "SpinningStart"
  <2> DEFINE held == [k \in Lights |->
                 IF InPlace(tree, k) THEN Frozen(tree.fader[k])
                 ELSE Aimed(tree.fader[k], IF k = tree.target THEN "UP" ELSE "DOWN")]
  <2>1. InPlace(tree, 4)
    BY <1>2 DEF InPlace, Quiet
  <2>2. held[4] = Frozen(tree.fader[4])
    BY <1>1, <2>1
  <2>3. Transition(tree) = IF \A k \in Lights : InPlace(tree, k)
                           THEN [state |-> "Spinning", target |-> Following(tree.target),
                                 fader |-> [held EXCEPT ![tree.target] = Enabled(@)]]
                           ELSE [tree EXCEPT !.fader = held]
    BY <1>4 DEF Transition, RevUp
  <2>4. tree \in [state : {"SpinningStart", "Spinning"}, target : Spinners,
                  fader : [Lights -> Faders]]
    BY DEF Trees
  <2>5. DOMAIN held = Lights
    OBVIOUS
  <2> HIDE DEF held
  <2>6. Transition(tree).fader[4] = held[4]
    BY <1>1, <1>2, <2>3, <2>4, <2>5
  <2> QED
    BY <1>3, <2>2, <2>6
<1>5. CASE tree.state # "SpinningStart"
  <2>1. tree.state = "Spinning"
    BY <1>5 DEF Trees
  <2>2. Transition(tree) = Spin(tree)
    BY <1>5 DEF Transition
  <2>3. Spin(tree).fader[4] = tree.fader[4]
    BY <1>1 DEF Spin, Spinners, Trees
  <2> QED
    BY <2>1, <2>2, <2>3 DEF Quiet
<1> QED
  BY <1>4, <1>5

LEMMA SteppedQuiet ==
    ASSUME NEW tree \in Trees, Quiet(tree)
    PROVE  Quiet(TreeStepped(tree))
<1> DEFINE next == Transition(tree)
           Twice(k) == /\ next.state = "Spinning"
                       /\ k = next.target
                       /\ Faded(next.fader[k]).brightness < FULL
           fader == [k \in Lights |->
               IF Twice(k) THEN Faded(Faded(next.fader[k])) ELSE Faded(next.fader[k])]
<1>1. next.fader[4].brightness = 0 /\ ~next.fader[4].enabled
  BY TransitionQuiet
<1>2. next \in Trees
  BY TransitionType
<1>3. Faded(next.fader[4]) = next.fader[4]
  BY <1>1 DEF Faded
<1>4. fader[4] = next.fader[4]
  BY <1>3 DEF Lights
<1>5. TreeStepped(tree) = [next EXCEPT !.fader = fader]
  BY DEF TreeStepped
<1> HIDE DEF next, fader
<1>6. TreeStepped(tree).fader = fader
  BY <1>2, <1>5 DEF Trees
<1> QED
  BY <1>1, <1>4, <1>6 DEF Quiet

\* Every tree of the next state is one of this state's, or quiet.
LEMMA QuietKept ==
    ASSUME TreesAreQuiet,
           \A i \in DOMAIN loaded' : loaded'[i].fp.id = "FSM_CHRISTMASTREE" =>
                \/ \E k \in DOMAIN loaded : loaded'[i] = loaded[k]
                \/ Quiet(loaded'[i].tree)
    PROVE  TreesAreQuiet'
BY DEF TreesAreQuiet

\* Only a Step() of a tree rewrites a tree.
LEMMA StepQuiet ==
    ASSUME BoardTypeOK, TreesAreQuiet, StepFsm
    PROVE  TreesAreQuiet'
<1>1. SameFsms
  BY StepFsmType
<1> SUFFICES ASSUME NEW k \in DOMAIN loaded,
                    \/ StepFade(k) \/ StepTree(k) \/ StepBlink(k) \/ StepToggle(k)
                    \/ StepBattery(k) \/ StepMimic(k) \/ TimeOut(k)
             PROVE  TreesAreQuiet'
  BY DEF StepFsm
<1>2. CASE StepTree(k)
  <2>1. loaded[k] \in Objects /\ loaded[k].fp.id = "FSM_CHRISTMASTREE"
    BY <1>2 DEF StepTree, Is, BoardTypeOK
  <2>2. loaded[k] \in [fp : Loads({"FSM_CHRISTMASTREE"}), tree : Trees]
    BY <2>1, ObjectFields
  <2>3. loaded' = [loaded EXCEPT ![k] = [loaded[k] EXCEPT !.tree = TreeStepped(loaded[k].tree)]]
    BY <1>2 DEF StepTree
  <2>4. loaded'[k] = [loaded[k] EXCEPT !.tree = TreeStepped(loaded[k].tree)]
    BY <2>3 DEF BoardTypeOK
  <2>5. loaded'[k].tree = TreeStepped(loaded[k].tree)
    BY <2>2, <2>4
  <2>6. Quiet(loaded'[k].tree)
    BY <2>1, <2>2, <2>5, SteppedQuiet DEF TreesAreQuiet
  <2>7. \A j \in DOMAIN loaded : j # k => loaded'[j] = loaded[j]
    BY <2>3
  <2> QED
    BY <1>1, <2>6, <2>7, QuietKept DEF SameFsms
<1>3. CASE ~StepTree(k)
  <2>1. /\ loaded[k].fp.id # "FSM_CHRISTMASTREE"
        /\ \A j \in DOMAIN loaded : j # k => loaded'[j] = loaded[j]
    <3>1. CASE StepFade(k)
      BY <3>1 DEF StepFade, Is
    <3>2. CASE StepBlink(k)
      BY <3>2 DEF StepBlink, Is
    <3>3. CASE StepToggle(k)
      BY <3>3 DEF StepToggle, Is
    <3>4. CASE StepBattery(k)
      BY <3>4 DEF StepBattery, Is
    <3>5. CASE StepMimic(k)
      BY <3>5 DEF StepMimic, Is
    <3>6. CASE TimeOut(k)
      BY <3>6 DEF TimeOut, Is
    <3> QED
      BY <1>3, <3>1, <3>2, <3>3, <3>4, <3>5, <3>6
  <2> QED
    BY <1>1, <2>1, QuietKept DEF SameFsms
<1> QED
  BY <1>2, <1>3

LEMMA CommandQuiet ==
    ASSUME BoardTypeOK, TreesAreQuiet, NEW m \in Commands, Command(m)
    PROVE  TreesAreQuiet'
<1>1. SameFsms
  BY CommandType
<1>2. \A k \in DOMAIN loaded : loaded[k].fp.id = "FSM_CHRISTMASTREE" => loaded'[k] = loaded[k]
  <2>1. CASE m.id = "FSM_TOGGLE"
    BY <2>1 DEF Command, CommandToggles, Is
  <2>2. CASE m.id # "FSM_TOGGLE"
    BY <2>2 DEF Command, CommandMotors, Is
  <2> QED
    BY <2>1, <2>2
<1> QED
  BY <1>1, <1>2, QuietKept DEF SameFsms

LEMMA NewTreeQuiet ==
    Quiet(NewTree)
BY DEF Quiet, NewTree, NewFader, Lights

LEMMA CreateQuiet ==
    ASSUME BoardTypeOK, TreesAreQuiet, NEW fp \in Loadable, Create(fp)
    PROVE  TreesAreQuiet'
<1>1. DOMAIN loaded' = 1 .. Len(loaded) + 1 /\ DOMAIN loaded = 1 .. Len(loaded)
  BY CreateType, SeqShape DEF BoardTypeOK
<1>2. fp.id = "FSM_CHRISTMASTREE" => New(fp).tree = NewTree
  BY DEF New
<1>3. Len(loaded) \in Nat
  BY SeqShape DEF BoardTypeOK
<1> SUFFICES ASSUME NEW i \in DOMAIN loaded', loaded'[i].fp.id = "FSM_CHRISTMASTREE"
             PROVE  (\E k \in DOMAIN loaded : loaded'[i] = loaded[k]) \/ Quiet(loaded'[i].tree)
  BY QuietKept
<1>4. CASE i \in DOMAIN loaded
  BY <1>4, CreateType
<1>5. CASE i = Len(loaded) + 1
  BY <1>2, <1>5, CreateType, NewType, NewTreeQuiet
<1> QED
  BY <1>1, <1>3, <1>4, <1>5

LEMMA DestroyQuiet ==
    ASSUME BoardTypeOK, TreesAreQuiet, NEW fp \in Loadable, Destroy(fp)
    PROVE  TreesAreQuiet'
<1>1. CASE UNCHANGED loaded
  BY <1>1 DEF TreesAreQuiet
<1>2. ASSUME NEW k \in DOMAIN loaded, loaded' = Removed(k)
      PROVE  TreesAreQuiet'
  <2>1. Len(loaded) \in Nat /\ DOMAIN loaded = 1 .. Len(loaded)
    BY SeqShape DEF BoardTypeOK
  <2>2. DOMAIN loaded' = 1 .. Len(loaded) - 1
    BY <1>2 DEF Removed
  <2>3. \A i \in DOMAIN loaded' : i \in DOMAIN loaded /\ i + 1 \in DOMAIN loaded
    BY <2>1, <2>2
  <2>4. \A i \in DOMAIN loaded' : \E j \in DOMAIN loaded : loaded'[i] = loaded[j]
    BY <1>2, <2>2, <2>3, RemovedType DEF BoardTypeOK
  <2> QED
    BY <2>4, QuietKept
<1> QED
  BY <1>1, <1>2, DestroyType

LEMMA NextQuiet ==
    ASSUME TypeOK, TreesAreQuiet, [Next]_session
    PROVE  TreesAreQuiet'
<1>1. BoardTypeOK
  BY DEF TypeOK
<1>2. CASE UNCHANGED loaded
  BY <1>2 DEF TreesAreQuiet
<1>3. CASE Console
  BY <1>2, <1>3
     DEF Console, CallCreate, CallDestroy, CallCommand, SetBridge, CallClear, Arrive,
         GiveUp, DestroyNext, board
<1>4. CASE SerialCallback
  <2> DEFINE m == Head(rx)
  <2>1. m \in Requests /\ Handle(m)
    BY <1>4, HeadType DEF SerialCallback, TypeOK
  <2> QED
    BY <1>1, <1>2, <2>1, RequestKinds, CreateQuiet, DestroyQuiet, CommandQuiet
       DEF Handle, board
<1>5. CASE Step
  BY <1>1, <1>5, StepQuiet DEF Step
<1>6. CASE UNCHANGED session
  BY <1>2, <1>6 DEF session
<1> QED
  BY <1>3, <1>4, <1>5, <1>6 DEF Next

LEMMA InitQuiet ==
    ASSUME NEW fps \in Seq(Loadable), Booted(fps)
    PROVE  TreesAreQuiet
<1> SUFFICES ASSUME NEW k \in DOMAIN fps, New(fps[k]).fp.id = "FSM_CHRISTMASTREE"
             PROVE  Quiet(New(fps[k]).tree)
  BY DEF Booted, TreesAreQuiet
<1>1. fps[k] \in Loadable
  OBVIOUS
<1>2. New(fps[k]).tree = NewTree
  BY <1>1, NewType DEF New
<1> QED
  BY <1>2, NewTreeQuiet

\* A quiet tree does not write the emergency light.
LEMMA EmergencyStays ==
    ASSUME TypeOK, TreesAreQuiet, NEW k \in DOMAIN loaded, StepTree(k)
    PROVE  lit'["LED_EMERGENCY"] = lit["LED_EMERGENCY"]
<1> DEFINE tree == loaded[k].tree
           Wrote(p) == \E n \in Written(tree) : TreePin(n) = p /\ Shines(TreeStepped(tree).fader[n])
           w == [p \in {TreePin(n) : n \in Written(tree)} |-> Wrote(p)]
<1>1. loaded[k] \in Objects /\ loaded[k].fp.id = "FSM_CHRISTMASTREE"
  BY DEF StepTree, Is, TypeOK, BoardTypeOK
<1>2. tree \in Trees /\ Quiet(tree)
  BY <1>1, ObjectFields DEF TreesAreQuiet
<1>3. 4 \notin Written(tree)
  BY <1>2, TransitionQuiet DEF Written
<1>4. \A n \in 0 .. 3 : TreePin(n) # "LED_EMERGENCY"
  BY DEF TreePin
<1>5. Written(tree) \subseteq 0 .. 3
  BY <1>3 DEF Written, Lights
<1>6. "LED_EMERGENCY" \notin DOMAIN w
  BY <1>4, <1>5
<1>7. "LED_EMERGENCY" \in Pins
  <2>1. TreePin(4) = "LED_EMERGENCY" /\ 4 \in Lights
    BY DEF TreePin, Lights
  <2>2. TreePin(4) \in TreePins
    BY <2>1 DEF TreePins
  <2> QED
    BY <2>1, <2>2, PinAssumption
<1>8. Drive(w)
  BY DEF StepTree
<1> HIDE DEF w
<1> QED
  BY <1>6, <1>7, <1>8 DEF Drive

\* Whatever rate the tree fades at and whoever else uses the emergency light, no
\* step of a tree changes it.
THEOREM TreeKeepsOffEmergency == Spec => TreeLeavesEmergencyAlone
<1> DEFINE Alone == \A k \in DOMAIN loaded : ~StepTree(k)
<1>1. Init => TreesAreQuiet
  BY SessionAssumption, InitQuiet DEF Init
<1>2. TypeOK /\ TreesAreQuiet /\ [Next]_session => TreesAreQuiet'
  BY NextQuiet
<1>3. TypeOK /\ TreesAreQuiet /\ [Next]_session =>
          [lit'["LED_EMERGENCY"] # lit["LED_EMERGENCY"] => Alone]_session
  BY EmergencyStays
<1> QED
  BY <1>1, <1>2, <1>3, SessionTypes, PTL DEF Spec, TreeLeavesEmergencyAlone

(***************************************************************************)
(* What ClearFSMs() leaves                                                 *)
(***************************************************************************)

\* No list has been asked for, or answered, that is later than the last query.
ListsAreAsked ==
    /\ \A i \in 1 .. Len(rx) : rx[i].kind = "LIST" => rx[i].query <= queries
    /\ \A j \in 1 .. Len(line) : line[j].query <= queries

\* While the host waits, its query is the last message to the board, and once
\* the board has answered nothing changes what is loaded.
AnswerIsFresh ==
    pc = "listing" =>
        /\ \A i \in 1 .. Len(rx) :
               rx[i].kind = "LIST" /\ rx[i].query = queries => i = Len(rx)
        /\ \A j \in 1 .. Len(line) :
               line[j].query = queries => rx = <<>> /\ line[j].fsms = Fps(loaded)

\* The FSMs that are loaded are those of the n messages DESTROY on their way, in
\* their order, and those the loop of ClearFSMs() has left.
Doomed(n) ==
    /\ \A i \in 1 .. Len(rx) : rx[i].kind = (IF i <= n THEN "DESTROY" ELSE "COMMAND")
    /\ pc = "destroying" => n = Len(rx)
    /\ Len(loaded) = n + Len(fsmv)
    /\ \A i \in 1 .. n : loaded[i].fp = rx[i].fp
    /\ \A i \in 1 .. Len(fsmv) : loaded[n + i].fp = fsmv[i]

AllDoomed == current => pc # "listing" /\ \E n \in 0 .. Len(rx) : Doomed(n)

ClearInv ==
    /\ ListsAreAsked /\ AnswerIsFresh
    /\ pc # "destroying" => fsmv = <<>>
    /\ AllDoomed

LEMMA SameFps ==
    ASSUME BoardTypeOK, SameFsms
    PROVE  Fps(loaded)' = Fps(loaded)
<1>1. DOMAIN loaded' = DOMAIN loaded /\ \A k \in DOMAIN loaded : loaded'[k].fp = loaded[k].fp
  BY DEF SameFsms
<1> QED
  BY <1>1 DEF Fps

LEMMA AppendType ==
    ASSUME NEW S, NEW s \in Seq(S), NEW e \in S
    PROVE  /\ Len(Append(s, e)) = Len(s) + 1 /\ Len(s) \in Nat
           /\ \A i \in 1 .. Len(s) : Append(s, e)[i] = s[i]
           /\ Append(s, e)[Len(s) + 1] = e
OBVIOUS

LEMMA AnswersType ==
    ASSUME TypeOK
    PROVE  /\ Len(line) \in Nat
           /\ \A j \in 1 .. Len(line) : line[j].query \in Nat
<1>1. line \in Seq([query : Nat, fsms : Seq(Loadable)])
  BY DEF TypeOK
<1>2. Len(line) \in Nat /\ line \in [1 .. Len(line) -> [query : Nat, fsms : Seq(Loadable)]]
  BY <1>1, SeqShape
<1>3. ASSUME NEW j \in 1 .. Len(line)
      PROVE  line[j].query \in Nat
  <2>1. line[j] \in [query : Nat, fsms : Seq(Loadable)]
    BY <1>2
  <2> QED
    BY <2>1
<1> QED
  BY <1>2, <1>3

\* The board's objects may be rewritten, but none comes or goes.
LEMMA ClearKept ==
    ASSUME TypeOK, ClearInv, SameFsms, UNCHANGED <<pc, fsmv, rx, line, queries, current>>
    PROVE  ClearInv'
<1>1. Fps(loaded)' = Fps(loaded)
  BY SameFps DEF TypeOK
<1>2. ListsAreAsked' /\ AnswerIsFresh'
  BY <1>1 DEF ClearInv, ListsAreAsked, AnswerIsFresh
<1>3. ASSUME current, NEW n \in 0 .. Len(rx), Doomed(n)
      PROVE  Doomed(n)'
  <2>1. DOMAIN loaded = 1 .. Len(loaded) /\ Len(loaded) \in Nat
    BY SeqShape DEF TypeOK, BoardTypeOK
  <2>2. Len(fsmv) \in Nat /\ Len(rx) \in Nat
    BY SeqShape DEF TypeOK
  <2>3. \A i \in 1 .. n + Len(fsmv) : loaded'[i].fp = loaded[i].fp
    BY <1>3, <2>1 DEF SameFsms, Doomed
  <2>4. /\ \A i \in 1 .. n : i \in 1 .. n + Len(fsmv)
        /\ \A i \in 1 .. Len(fsmv) : n + i \in 1 .. n + Len(fsmv)
    BY <2>2
  <2> QED
    BY <1>3, <2>3, <2>4 DEF Doomed, SameFsms
<1> QED
  BY <1>2, <1>3 DEF ClearInv, AllDoomed

\* A message is sent while the host neither waits nor destroys.
LEMMA SendKeepsLists ==
    ASSUME TypeOK, ClearInv, NEW m \in Requests, Send(m),
           queries' \in {queries, queries + 1},
           m.kind = "LIST" => m.query = queries',
           UNCHANGED line
    PROVE  ListsAreAsked'
<1>1. rx \in Seq(Requests) /\ rx' = Append(rx, m)
  BY SendType DEF TypeOK
<1>2. queries \in Nat /\ queries <= queries'
  BY DEF TypeOK
<1>3. Len(rx') = Len(rx) + 1 /\ Len(rx) \in Nat /\ rx'[Len(rx) + 1] = m
      /\ \A i \in 1 .. Len(rx) : rx'[i] = rx[i]
  BY <1>1, AppendType
<1>4. \A i \in 1 .. Len(rx) : rx[i].kind = "LIST" => rx[i].query \in Nat
  BY <1>1, RequestKinds
<1>5. \A j \in 1 .. Len(line) : line[j].query \in Nat
  BY AnswersType
<1>6. ASSUME NEW i \in 1 .. Len(rx'), rx'[i].kind = "LIST"
      PROVE  rx'[i].query <= queries'
  <2>1. CASE i \in 1 .. Len(rx)
    BY <1>2, <1>3, <1>4, <1>6, <2>1 DEF ClearInv, ListsAreAsked
  <2>2. CASE i = Len(rx) + 1
    BY <1>2, <1>3, <1>6, <2>2
  <2> QED
    BY <1>3, <2>1, <2>2
<1>7. \A j \in 1 .. Len(line) : line[j].query <= queries'
  BY <1>2, <1>5 DEF ClearInv, ListsAreAsked
<1> QED
  BY <1>6, <1>7 DEF ListsAreAsked

\* The host sends a message while it is idle: its own actions do not touch the
\* board.
LEMMA CallsKeepClear ==
    ASSUME TypeOK, ClearInv, CallCreate \/ CallDestroy
    PROVE  ClearInv'
<1>1. PICK m \in Requests : m.kind # "LIST" /\ Send(m)
  <2>1. \A fp \in HostFsms : [kind |-> "CREATE", fp |-> fp] \in Requests
    BY SessionAssumption DEF Requests
  <2>2. \A fp \in HostFsms : [kind |-> "DESTROY", fp |-> fp] \in Requests
    BY SessionAssumption DEF Requests
  <2>3. CASE CallCreate
    BY <2>1, <2>3 DEF CallCreate
  <2>4. CASE CallDestroy
    BY <2>2, <2>4 DEF CallDestroy
  <2> QED
    BY <2>3, <2>4
<1>2. UNCHANGED <<pc, fsmv, line, queries>> /\ pc = "idle" /\ ~current'
  BY DEF CallCreate, CallDestroy
<1>3. ListsAreAsked'
  BY <1>1, <1>2, SendKeepsLists
<1> QED
  BY <1>2, <1>3 DEF ClearInv, AnswerIsFresh, AllDoomed

\* A command goes to the end and leaves what will be destroyed as it is.
LEMMA CommandKeepsClear ==
    ASSUME TypeOK, ClearInv, CallCommand
    PROVE  ClearInv'
<1>1. PICK msg \in HostCommands : Send([kind |-> "COMMAND", msg |-> msg])
  BY DEF CallCommand
<1> DEFINE m == [kind |-> "COMMAND", msg |-> msg]
<1>2. m \in Requests /\ m.kind = "COMMAND"
  BY SessionAssumption DEF Requests
<1> HIDE DEF m
<1>3. UNCHANGED <<loaded, pc, fsmv, line, queries, current>> /\ pc = "idle"
  BY DEF CallCommand, board
<1>4. ListsAreAsked'
  BY <1>1, <1>2, <1>3, SendKeepsLists DEF m
<1>5. /\ Len(rx') = Len(rx) + 1 /\ Len(rx) \in Nat /\ rx'[Len(rx) + 1] = m
      /\ \A i \in 1 .. Len(rx) : rx'[i] = rx[i]
  BY <1>1, <1>2, AppendType DEF TypeOK, Send, m
<1>6. ASSUME NEW n \in 0 .. Len(rx), Doomed(n)
      PROVE  n \in 0 .. Len(rx') /\ Doomed(n)'
  <2>1. n \in 0 .. Len(rx')
    BY <1>5
  <2>2. \A i \in 1 .. Len(rx') : rx'[i].kind = (IF i <= n THEN "DESTROY" ELSE "COMMAND")
    <3> SUFFICES ASSUME NEW i \in 1 .. Len(rx')
                 PROVE  rx'[i].kind = (IF i <= n THEN "DESTROY" ELSE "COMMAND")
      OBVIOUS
    <3>1. CASE i \in 1 .. Len(rx)
      BY <1>5, <1>6, <3>1 DEF Doomed
    <3>2. CASE i = Len(rx) + 1
      BY <1>2, <1>5, <3>2
    <3> QED
      BY <1>5, <3>1, <3>2
  <2>3. \A i \in 1 .. n : loaded[i].fp = rx'[i].fp
    BY <1>5, <1>6 DEF Doomed
  <2> QED
    BY <1>3, <1>6, <2>1, <2>2, <2>3 DEF Doomed
<1> QED
  BY <1>3, <1>4, <1>6 DEF ClearInv, AnswerIsFresh, AllDoomed

LEMMA ClearAsks ==
    ASSUME TypeOK, ClearInv, CallClear
    PROVE  ClearInv'
<1> DEFINE m == [kind |-> "LIST", query |-> queries + 1]
<1>1. m \in Requests /\ m.kind = "LIST" /\ m.query = queries + 1
  BY DEF Requests, TypeOK
<1>2. Send(m) /\ queries' = queries + 1 /\ pc' = "listing" /\ fsmv' = <<>> /\ ~current'
  BY DEF CallClear
<1> HIDE DEF m
<1>3. ListsAreAsked' /\ UNCHANGED line
  BY <1>1, <1>2, SendKeepsLists DEF CallClear
<1>4. /\ Len(rx') = Len(rx) + 1 /\ Len(rx) \in Nat
      /\ \A i \in 1 .. Len(rx) : rx'[i] = rx[i]
  BY <1>1, <1>2, AppendType DEF TypeOK, Send
<1>5. \A i \in 1 .. Len(rx) : rx[i].kind = "LIST" => rx[i].query \in Nat
  <2>1. rx \in [1 .. Len(rx) -> Requests]
    BY SeqShape DEF TypeOK
  <2> QED
    BY <2>1, RequestKinds
<1>6. queries \in Nat
  BY DEF TypeOK
<1>7. \A i \in 1 .. Len(rx) : rx'[i].kind = "LIST" => rx'[i].query # queries'
  BY <1>2, <1>4, <1>5, <1>6 DEF ClearInv, ListsAreAsked
<1>8. \A j \in 1 .. Len(line) : line[j].query # queries'
  BY <1>2, <1>6, AnswersType DEF ClearInv, ListsAreAsked
<1>9. \A i \in 1 .. Len(rx') : rx'[i].kind = "LIST" /\ rx'[i].query = queries' => i = Len(rx')
  BY <1>4, <1>7
<1> QED
  BY <1>2, <1>3, <1>8, <1>9 DEF ClearInv, AnswerIsFresh, AllDoomed

\* The list that answers the last query is what is loaded, and nothing is on its
\* way to the board.
LEMMA ArriveKeepsClear ==
    ASSUME TypeOK, ClearInv, Arrive
    PROVE  ClearInv'
<1> DEFINE list == Head(line)
<1>1. /\ list = line[1] /\ 1 \in 1 .. Len(line)
      /\ Len(line') = Len(line) - 1
      /\ \A j \in 1 .. Len(line) - 1 : line'[j] = line[j + 1]
  BY HeadType DEF TypeOK, Arrive
<1>2. UNCHANGED <<loaded, rx, queries>>
  BY DEF Arrive, board
<1>3. ListsAreAsked'
  <2>1. ASSUME NEW j \in 1 .. Len(line')
        PROVE  line'[j].query <= queries
    <3>1. j + 1 \in 1 .. Len(line) /\ line'[j] = line[j + 1]
      BY <1>1, AnswersType
    <3> QED
      BY <3>1 DEF ClearInv, ListsAreAsked
  <2> QED
    BY <1>2, <2>1 DEF ClearInv, ListsAreAsked
<1>4. CASE pc # "listing"
  <2>1. UNCHANGED <<fsmv, pc, current>>
    BY <1>4 DEF Arrive
  <2> QED
    BY <1>2, <1>3, <1>4, <2>1 DEF ClearInv, AnswerIsFresh, AllDoomed, Doomed
<1>5. CASE pc = "listing"
  <2>1. fsmv' = list.fsms /\ pc' = "destroying" /\ current' = (list.query = queries)
    BY <1>5 DEF Arrive
  <2>2. ASSUME current'
        PROVE  0 \in 0 .. Len(rx') /\ Doomed(0)'
    <3>1. list.query = queries
      BY <2>1, <2>2
    <3>2. rx = <<>> /\ list.fsms = Fps(loaded)
      BY <1>1, <1>5, <3>1 DEF ClearInv, AnswerIsFresh
    <3>3. Len(fsmv') = Len(loaded) /\ \A i \in 1 .. Len(loaded) : fsmv'[i] = loaded[i].fp
      BY <2>1, <3>2, FpsType DEF TypeOK, BoardTypeOK
    <3>4. Len(rx') = 0 /\ Len(loaded) \in Nat
      BY <1>2, <3>2, SeqShape DEF TypeOK, BoardTypeOK
    <3>5. \A i \in 1 .. Len(fsmv') : loaded'[0 + i].fp = fsmv'[i]
      BY <1>2, <3>3, <3>4
    <3> QED
      BY <1>2, <3>3, <3>4, <3>5 DEF Doomed
  <2> QED
    BY <1>3, <2>1, <2>2 DEF ClearInv, AnswerIsFresh, AllDoomed
<1> QED
  BY <1>4, <1>5

LEMMA GiveUpKeepsClear ==
    ASSUME TypeOK, ClearInv, GiveUp
    PROVE  ClearInv'
<1>1. pc = "listing" /\ pc' = "idle" /\ UNCHANGED <<loaded, rx, line, fsmv, queries, current>>
  BY DEF GiveUp, board
<1>2. ~current
  BY <1>1 DEF ClearInv, AllDoomed
<1> QED
  BY <1>1, <1>2 DEF ClearInv, ListsAreAsked, AnswerIsFresh, AllDoomed

\* One DESTROY more is on its way, one FSM less is left to the loop.
LEMMA DestroyNextKeepsClear ==
    ASSUME TypeOK, ClearInv, DestroyNext
    PROVE  ClearInv'
<1>1. pc = "destroying" /\ UNCHANGED <<loaded, line, queries, current>>
  BY DEF DestroyNext, board
<1>2. CASE fsmv = <<>>
  <2>1. pc' = "idle" /\ UNCHANGED <<fsmv, rx>>
    BY <1>2 DEF DestroyNext
  <2>2. \A n \in 0 .. Len(rx) : Doomed(n) => Doomed(n)'
    BY <1>1, <2>1 DEF Doomed
  <2> QED
    BY <1>1, <1>2, <2>1, <2>2 DEF ClearInv, ListsAreAsked, AnswerIsFresh, AllDoomed
<1>3. CASE fsmv # <<>>
  <2> DEFINE m == [kind |-> "DESTROY", fp |-> Head(fsmv)]
  <2>1. /\ Head(fsmv) \in Loadable /\ Head(fsmv) = fsmv[1] /\ 1 \in 1 .. Len(fsmv)
        /\ Len(Tail(fsmv)) = Len(fsmv) - 1 /\ Len(fsmv) \in Nat
        /\ \A i \in 1 .. Len(fsmv) - 1 : Tail(fsmv)[i] = fsmv[i + 1]
    BY <1>3, HeadType DEF TypeOK
  <2>2. m \in Requests /\ m.kind = "DESTROY" /\ m.fp = fsmv[1]
    BY <2>1 DEF Requests
  <2>3. Send(m) /\ fsmv' = Tail(fsmv) /\ pc' = pc
    BY <1>3 DEF DestroyNext
  <2> HIDE DEF m
  <2>4. ListsAreAsked'
    BY <1>1, <2>2, <2>3, SendKeepsLists
  <2>5. /\ Len(rx') = Len(rx) + 1 /\ Len(rx) \in Nat /\ rx'[Len(rx) + 1] = m
        /\ \A i \in 1 .. Len(rx) : rx'[i] = rx[i]
    BY <2>2, <2>3, AppendType DEF TypeOK, Send
  <2>6. ASSUME NEW n \in Nat, n = Len(rx), Doomed(n)
        PROVE  n + 1 \in 0 .. Len(rx') /\ Doomed(n + 1)'
    <3>1. Len(loaded) = n + Len(fsmv)
      BY <2>6 DEF Doomed
    <3>2. \A i \in 1 .. Len(rx') : i <= n + 1 /\ rx'[i].kind = "DESTROY"
      <4> SUFFICES ASSUME NEW i \in 1 .. Len(rx')
                   PROVE  i <= n + 1 /\ rx'[i].kind = "DESTROY"
        OBVIOUS
      <4>1. CASE i \in 1 .. Len(rx)
        BY <2>5, <2>6, <4>1 DEF Doomed
      <4>2. CASE i = Len(rx) + 1
        BY <2>2, <2>5, <2>6, <4>2
      <4> QED
        BY <2>5, <2>6, <4>1, <4>2
    <3>3. loaded[n + 1].fp = fsmv[1]
      BY <2>1, <2>6 DEF Doomed
    <3>4. \A i \in 1 .. n + 1 : loaded[i].fp = rx'[i].fp
      <4> SUFFICES ASSUME NEW i \in 1 .. n + 1
                   PROVE  loaded[i].fp = rx'[i].fp
        OBVIOUS
      <4>1. CASE i \in 1 .. Len(rx)
        BY <2>5, <2>6, <4>1 DEF Doomed
      <4>2. CASE i = Len(rx) + 1
        BY <2>2, <2>5, <2>6, <3>3, <4>2
      <4> QED
        BY <2>5, <2>6, <4>1, <4>2
    <3>5. ASSUME NEW i \in 1 .. Len(fsmv')
          PROVE  loaded[n + 1 + i].fp = fsmv'[i]
      <4>1. i + 1 \in 1 .. Len(fsmv) /\ fsmv'[i] = fsmv[i + 1]
        BY <2>1, <2>3
      <4>2. loaded[n + (i + 1)].fp = fsmv[i + 1]
        BY <2>6, <4>1 DEF Doomed
      <4>3. n + (i + 1) = n + 1 + i
        BY <4>1
      <4> QED
        BY <4>1, <4>2, <4>3
    <3>6. Len(fsmv) \in Nat /\ Len(fsmv') = Len(fsmv) - 1
      BY <2>1, <2>3
    <3>7. Len(loaded) = n + 1 + Len(fsmv')
      BY <3>1, <3>6
    <3>8. n + 1 \in 0 .. Len(rx') /\ n + 1 = Len(rx')
      BY <2>5, <2>6
    <3> QED
      BY <1>1, <3>2, <3>4, <3>5, <3>7, <3>8 DEF Doomed
  <2>7. ASSUME current
        PROVE  \E n \in 0 .. Len(rx') : Doomed(n)'
    <3>1. PICK n \in 0 .. Len(rx) : n = Len(rx) /\ Doomed(n)
      BY <1>1, <2>7 DEF ClearInv, AllDoomed, Doomed
    <3>2. n \in Nat
      BY <2>5
    <3> QED
      BY <2>6, <3>1, <3>2
  <2> QED
    BY <1>1, <2>3, <2>4, <2>7 DEF ClearInv, AnswerIsFresh, AllDoomed
<1> QED
  BY <1>2, <1>3

\* The board takes a message off its line: facts about the rest.
Taken == rx # <<>> /\ rx' = Tail(rx)

LEMMA HeadTaken ==
    ASSUME TypeOK, Taken
    PROVE  /\ Head(rx) \in Requests /\ Head(rx) = rx[1]
           /\ Len(rx) \in Nat /\ 1 \in 1 .. Len(rx)
           /\ rx' \in Seq(Requests) /\ Len(rx') = Len(rx) - 1
           /\ \A i \in 1 .. Len(rx') : i + 1 \in 1 .. Len(rx) /\ rx'[i] = rx[i + 1]
<1>1. rx \in Seq(Requests)
  BY DEF TypeOK
<1>2. Head(rx) \in Requests /\ Head(rx) = rx[1] /\ Len(rx) \in Nat /\ 1 \in 1 .. Len(rx)
  BY <1>1, HeadType, SeqShape DEF Taken
<1>3. /\ rx' \in Seq(Requests) /\ Len(rx') = Len(rx) - 1
      /\ \A i \in 1 .. Len(rx) - 1 : rx'[i] = rx[i + 1]
  BY <1>1, HeadType DEF Taken
<1> QED
  BY <1>2, <1>3

\* Whatever is handled but a list, the messages that are left keep their place,
\* and no answer to the last query is on its way yet.
LEMMA HandledKeepsLists ==
    ASSUME TypeOK, ClearInv, Taken, UNCHANGED <<line, queries, pc>>
    PROVE  ListsAreAsked' /\ AnswerIsFresh'
<1>1. /\ Len(rx) \in Nat /\ 1 \in 1 .. Len(rx) /\ Len(rx') = Len(rx) - 1
      /\ \A i \in 1 .. Len(rx') : i + 1 \in 1 .. Len(rx) /\ rx'[i] = rx[i + 1]
  BY HeadTaken
<1>2. ListsAreAsked'
  BY <1>1 DEF ClearInv, ListsAreAsked
<1>3. ASSUME pc = "listing", NEW i \in 1 .. Len(rx'),
             rx'[i].kind = "LIST", rx'[i].query = queries
      PROVE  i = Len(rx')
  <2>1. i + 1 = Len(rx)
    BY <1>1, <1>3 DEF ClearInv, AnswerIsFresh
  <2> QED
    BY <1>1, <1>3, <2>1
<1>4. pc = "listing" => \A j \in 1 .. Len(line) : line[j].query # queries
  BY DEF ClearInv, AnswerIsFresh, Taken
<1> QED
  BY <1>2, <1>3, <1>4 DEF AnswerIsFresh

\* The list is taken at the moment the query is handled.
LEMMA ListKeepsClear ==
    ASSUME TypeOK, ClearInv, Taken, Head(rx).kind = "LIST",
           line' = Append(line, [query |-> Head(rx).query, fsms |-> Fps(loaded)]),
           UNCHANGED board, UNCHANGED host
    PROVE  ClearInv'
<1> DEFINE m == Head(rx)
           answer == [query |-> m.query, fsms |-> Fps(loaded)]
<1>1. /\ m \in Requests /\ m = rx[1]
      /\ Len(rx) \in Nat /\ 1 \in 1 .. Len(rx) /\ Len(rx') = Len(rx) - 1
      /\ \A i \in 1 .. Len(rx') : i + 1 \in 1 .. Len(rx) /\ rx'[i] = rx[i + 1]
  BY HeadTaken
<1>2. UNCHANGED <<loaded, pc, fsmv, queries, current>>
  BY DEF board, host
<1>3. m.query \in Nat /\ m.query <= queries
  BY <1>1, RequestKinds DEF ClearInv, ListsAreAsked
<1>4. answer \in [query : Nat, fsms : Seq(Loadable)]
  <2>1. Fps(loaded) \in Seq(Loadable)
    BY FpsType DEF TypeOK, BoardTypeOK
  <2> QED
    BY <1>3, <2>1
<1>5. answer.query = m.query /\ answer.fsms = Fps(loaded) /\ line' = Append(line, answer)
  OBVIOUS
<1> HIDE DEF m, answer
<1>6. /\ Len(line') = Len(line) + 1 /\ Len(line) \in Nat
      /\ \A j \in 1 .. Len(line) : line'[j] = line[j]
      /\ line'[Len(line) + 1] = answer
  BY <1>4, <1>5, AppendType DEF TypeOK
<1>7. ListsAreAsked'
  <2>1. \A i \in 1 .. Len(rx') : rx'[i].kind = "LIST" => rx'[i].query <= queries
    BY <1>1 DEF ClearInv, ListsAreAsked
  <2>2. ASSUME NEW j \in 1 .. Len(line')
        PROVE  line'[j].query <= queries
    <3>1. CASE j \in 1 .. Len(line)
      BY <1>6, <3>1 DEF ClearInv, ListsAreAsked
    <3>2. CASE j = Len(line) + 1
      BY <1>3, <1>5, <1>6, <3>2
    <3> QED
      BY <1>6, <3>1, <3>2
  <2> QED
    BY <1>2, <2>1, <2>2 DEF ListsAreAsked
<1>8. ASSUME pc = "listing"
      PROVE  /\ \A i \in 1 .. Len(rx') :
                    rx'[i].kind = "LIST" /\ rx'[i].query = queries => i = Len(rx')
             /\ \A j \in 1 .. Len(line') :
                    line'[j].query = queries => rx' = <<>> /\ line'[j].fsms = Fps(loaded)
  <2>1. ASSUME NEW i \in 1 .. Len(rx'), rx'[i].kind = "LIST", rx'[i].query = queries
        PROVE  i = Len(rx')
    <3>1. i + 1 = Len(rx)
      BY <1>1, <1>8, <2>1 DEF ClearInv, AnswerIsFresh
    <3> QED
      BY <1>1, <2>1, <3>1
  <2>2. ASSUME NEW j \in 1 .. Len(line'), line'[j].query = queries
        PROVE  rx' = <<>> /\ line'[j].fsms = Fps(loaded)
    <3>1. j = Len(line) + 1
      <4>1. j \notin 1 .. Len(line)
        BY <1>6, <1>8, <2>2 DEF ClearInv, AnswerIsFresh, Taken
      <4> QED
        BY <1>6, <4>1
    <3>2. line'[j] = answer
      BY <1>6, <3>1
    <3>3. rx[1].kind = "LIST" /\ rx[1].query = queries
      BY <1>1, <1>5, <2>2, <3>2 DEF m
    <3>4. Len(rx') = 0
      BY <1>1, <1>8, <3>3 DEF ClearInv, AnswerIsFresh
    <3>5. rx' \in Seq(Requests)
      BY HeadTaken
    <3> QED
      BY <1>5, <3>2, <3>4, <3>5
  <2> QED
    BY <2>1, <2>2
<1>9. AnswerIsFresh'
  BY <1>2, <1>8 DEF AnswerIsFresh
<1>10. ~current
  <2>1. \A n \in 0 .. Len(rx) : ~Doomed(n)
    <3> SUFFICES ASSUME NEW n \in 0 .. Len(rx), Doomed(n)
                 PROVE  FALSE
      OBVIOUS
    <3>1. rx[1].kind \in {"DESTROY", "COMMAND"}
      BY <1>1 DEF Doomed
    <3> QED
      BY <1>1, <3>1 DEF m
  <2> QED
    BY <2>1 DEF ClearInv, AllDoomed
<1> QED
  BY <1>2, <1>7, <1>9, <1>10 DEF ClearInv, AllDoomed

\* The first DESTROY takes the first FSM: nothing before it is equal to it.
LEMMA FirstIsDestroyed ==
    ASSUME BoardTypeOK, Len(loaded) > 0, Destroy(loaded[1].fp)
    PROVE  /\ Len(loaded') = Len(loaded) - 1
           /\ \A j \in 1 .. Len(loaded') : loaded'[j] = loaded[j + 1]
<1> DEFINE fp == loaded[1].fp
<1>1. loaded \in Seq(Objects) /\ DOMAIN loaded = 1 .. Len(loaded) /\ Len(loaded) \in Nat
  BY SeqShape DEF BoardTypeOK
<1>2. 1 \in DOMAIN loaded
  BY <1>1
<1>3. fp \in Loadable
  BY <1>1, <1>2, ObjectFields
<1>4. PICK k \in DOMAIN loaded : FirstOf(fp, k) /\ loaded' = Removed(k)
  BY <1>2, <1>3, DestroyType
<1>5. k = 1
  <2>1. ~(1 \in 1 .. k - 1)
    BY <1>4 DEF FirstOf
  <2> QED
    BY <1>1, <2>1
<1>6. /\ Len(Removed(k)) = Len(loaded) - 1
      /\ \A j \in 1 .. Len(loaded) - 1 :
             Removed(k)[j] = IF j < k THEN loaded[j] ELSE loaded[j + 1]
  BY <1>1, RemovedType, Zenon
<1>7. \A j \in 1 .. Len(loaded) - 1 : ~(j < k)
  BY <1>1, <1>5
<1> QED
  BY <1>4, <1>6, <1>7

LEMMA DestroyKeepsClear ==
    ASSUME TypeOK, ClearInv, Taken, Head(rx).kind = "DESTROY",
           Destroy(Head(rx).fp), UNCHANGED line, UNCHANGED host
    PROVE  ClearInv'
<1>1. UNCHANGED <<line, pc, fsmv, queries, current>>
  BY DEF host
<1>2. ListsAreAsked' /\ AnswerIsFresh'
  BY <1>1, HandledKeepsLists
<1>3. /\ Head(rx) = rx[1] /\ Len(rx) \in Nat /\ 1 \in 1 .. Len(rx) /\ Len(rx') = Len(rx) - 1
      /\ \A i \in 1 .. Len(rx') : i + 1 \in 1 .. Len(rx) /\ rx'[i] = rx[i + 1]
  BY HeadTaken
<1>4. ASSUME NEW n \in 0 .. Len(rx), Doomed(n)
      PROVE  n - 1 \in 0 .. Len(rx') /\ Doomed(n - 1)'
  <2>1. n \in 1 .. Len(rx) /\ n - 1 \in 0 .. Len(rx')
    <3>1. 1 <= n
      BY <1>3, <1>4 DEF Doomed
    <3> QED
      BY <1>3, <3>1
  <2>2. Len(fsmv) \in Nat /\ Len(loaded) = n + Len(fsmv)
    BY <1>4, SeqShape DEF TypeOK, Doomed
  <2>3. loaded[1].fp = Head(rx).fp
    BY <1>3, <1>4, <2>1 DEF Doomed
  <2>4. BoardTypeOK /\ Len(loaded) > 0
    BY <2>1, <2>2 DEF TypeOK
  <2>5. /\ Len(loaded') = Len(loaded) - 1
        /\ \A j \in 1 .. Len(loaded') : loaded'[j] = loaded[j + 1]
    BY <2>3, <2>4, FirstIsDestroyed
  <2>6. ASSUME NEW i \in 1 .. Len(rx')
        PROVE  rx'[i].kind = (IF i <= n - 1 THEN "DESTROY" ELSE "COMMAND")
    <3>1. rx'[i].kind = (IF i + 1 <= n THEN "DESTROY" ELSE "COMMAND")
      BY <1>3, <1>4 DEF Doomed
    <3>2. (i + 1 <= n) <=> (i <= n - 1)
      BY <2>1, <2>6
    <3> QED
      BY <3>1, <3>2
  <2>7. ASSUME NEW i \in 1 .. n - 1
        PROVE  loaded'[i].fp = rx'[i].fp
    <3>1. i + 1 \in 1 .. n /\ i \in 1 .. Len(loaded') /\ i \in 1 .. Len(rx')
      BY <1>3, <2>1, <2>2, <2>5
    <3>2. loaded[i + 1].fp = rx[i + 1].fp
      BY <1>4, <3>1 DEF Doomed
    <3> QED
      BY <1>3, <2>5, <3>1, <3>2
  <2>8. ASSUME NEW i \in 1 .. Len(fsmv)
        PROVE  loaded'[n - 1 + i].fp = fsmv[i]
    <3>1. n - 1 + i \in 1 .. Len(loaded') /\ n - 1 + i + 1 = n + i
      BY <2>1, <2>2, <2>5
    <3>2. loaded[n + i].fp = fsmv[i]
      BY <1>4 DEF Doomed
    <3> QED
      BY <2>5, <3>1, <3>2
  <2>9. Len(loaded') = n - 1 + Len(fsmv)
    BY <2>1, <2>2, <2>5
  <2>10. pc = "destroying" => n - 1 = Len(rx')
    BY <1>3, <1>4 DEF Doomed
  <2> QED
    BY <1>1, <2>1, <2>6, <2>7, <2>8, <2>9, <2>10 DEF Doomed
<1> QED
  BY <1>1, <1>2, <1>4 DEF ClearInv, AllDoomed

\* Nothing that is loaded by a message is on its way once the list has come.
LEMMA CreateKeepsClear ==
    ASSUME TypeOK, ClearInv, Taken, Head(rx).kind = "CREATE",
           UNCHANGED line, UNCHANGED host
    PROVE  ClearInv'
<1>1. UNCHANGED <<line, pc, fsmv, queries, current>>
  BY DEF host
<1>2. ListsAreAsked' /\ AnswerIsFresh'
  BY <1>1, HandledKeepsLists
<1>3. Head(rx) = rx[1] /\ 1 \in 1 .. Len(rx)
  BY HeadTaken
<1>4. ~current
  BY <1>3 DEF ClearInv, AllDoomed, Doomed
<1> QED
  BY <1>1, <1>2, <1>4 DEF ClearInv, AllDoomed

LEMMA CommandedKeepsClear ==
    ASSUME TypeOK, ClearInv, Taken, Head(rx).kind = "COMMAND",
           Command(Head(rx).msg), UNCHANGED line, UNCHANGED host
    PROVE  ClearInv'
<1>1. UNCHANGED <<line, pc, fsmv, queries, current>>
  BY DEF host
<1>2. ListsAreAsked' /\ AnswerIsFresh'
  BY <1>1, HandledKeepsLists
<1>3. /\ Head(rx) \in Requests
      /\ Head(rx) = rx[1] /\ Len(rx) \in Nat /\ 1 \in 1 .. Len(rx) /\ Len(rx') = Len(rx) - 1
      /\ \A i \in 1 .. Len(rx') : i + 1 \in 1 .. Len(rx) /\ rx'[i] = rx[i + 1]
  BY HeadTaken
<1>4. SameFsms
  BY <1>3, RequestKinds, CommandType DEF TypeOK
<1>5. ASSUME NEW n \in 0 .. Len(rx), Doomed(n)
      PROVE  n = 0 /\ Doomed(0)'
  <2>1. n = 0
    BY <1>3, <1>5 DEF Doomed
  <2>2. pc # "destroying" /\ Len(loaded) = 0 + Len(fsmv)
        /\ \A i \in 1 .. Len(fsmv) : loaded[0 + i].fp = fsmv[i]
    BY <1>3, <1>5, <2>1 DEF Doomed
  <2>3. \A i \in 1 .. Len(rx') : rx'[i].kind = "COMMAND" /\ ~(i <= 0)
    BY <1>3, <1>5, <2>1 DEF Doomed
  <2>4. DOMAIN loaded = 1 .. Len(loaded) /\ Len(fsmv) \in Nat /\ Len(loaded) \in Nat
    BY SeqShape DEF TypeOK, BoardTypeOK
  <2>5. \A i \in 1 .. Len(fsmv) : 0 + i \in DOMAIN loaded
    BY <2>2, <2>4
  <2>6. \A i \in 1 .. Len(fsmv) : loaded'[0 + i].fp = fsmv[i]
    BY <1>4, <2>2, <2>5 DEF SameFsms
  <2> QED
    BY <1>1, <1>4, <2>1, <2>2, <2>3, <2>6 DEF SameFsms, Doomed
<1>6. current => 0 \in 0 .. Len(rx') /\ Doomed(0)'
  BY <1>3, <1>5 DEF ClearInv, AllDoomed
<1> QED
  BY <1>1, <1>2, <1>6 DEF ClearInv, AllDoomed

LEMMA NextKeepsClear ==
    ASSUME TypeOK, ClearInv, [Next]_session
    PROVE  ClearInv'
<1>1. CASE Console
  <2>1. CASE SetBridge
    <3>1. UNCHANGED <<loaded, pc, fsmv, rx, line, queries, current>>
      BY <2>1 DEF SetBridge
    <3> QED
      BY <3>1, ClearKept DEF SameFsms
  <2> QED
    BY <1>1, <2>1, CallsKeepClear, CommandKeepsClear, ClearAsks, ArriveKeepsClear,
       GiveUpKeepsClear, DestroyNextKeepsClear DEF Console
<1>2. CASE SerialCallback
  <2>1. Taken /\ Handle(Head(rx)) /\ UNCHANGED host
    BY <1>2 DEF SerialCallback, Taken
  <2> QED
    BY <2>1, CreateKeepsClear, DestroyKeepsClear, CommandedKeepsClear, ListKeepsClear
       DEF Handle
<1>3. CASE Step
  <2>1. SameFsms
    BY <1>3, StepFsmType DEF Step, TypeOK
  <2> QED
    BY <1>3, <2>1, ClearKept DEF Step, host
<1>4. CASE UNCHANGED session
  <2>1. UNCHANGED <<loaded, pc, fsmv, rx, line, queries, current>>
    BY <1>4 DEF session
  <2> QED
    BY <2>1, ClearKept DEF SameFsms
<1> QED
  BY <1>1, <1>2, <1>3, <1>4 DEF Next

LEMMA InitClear ==
    ASSUME NEW fps \in Seq(Loadable), Booted(fps)
    PROVE  ClearInv
<1>1. rx = <<>> /\ line = <<>> /\ pc = "idle" /\ fsmv = <<>> /\ ~current
  BY DEF Booted
<1> QED
  BY <1>1 DEF ClearInv, ListsAreAsked, AnswerIsFresh, AllDoomed

LEMMA NothingIsLeft ==
    ASSUME TypeOK, LitIsOwned, ClearInv
    PROVE  ClearLeavesNothing
<1> SUFFICES ASSUME current, pc = "idle", rx = <<>>
             PROVE  loaded = <<>> /\ \A p \in Pins \ UntidyPins : ~lit[p]
  BY DEF ClearLeavesNothing
<1>1. PICK n \in 0 .. Len(rx) : Doomed(n)
  BY DEF ClearInv, AllDoomed
<1>2. n = 0 /\ fsmv = <<>>
  BY DEF ClearInv
<1>3. Len(loaded) = 0
  BY <1>1, <1>2 DEF Doomed
<1>4. loaded \in Seq(Objects)
  BY DEF TypeOK, BoardTypeOK
<1>5. loaded = <<>>
  BY <1>3, <1>4
<1> QED
  BY <1>5 DEF LitIsOwned

\* Once the messages of a ClearFSMs() have been handled nothing is loaded and no
\* LED that an FSM can put out is lit, however many FSMs there were, equal ones
\* among them, and whatever commands and steps came in between.
THEOREM ClearingClears == Spec => []ClearLeavesNothing
<1>1. Init => ClearInv
  BY SessionAssumption, InitClear DEF Init
<1>2. TypeOK /\ ClearInv /\ [Next]_session => ClearInv'
  BY NextKeepsClear
<1>3. TypeOK /\ LitIsOwned /\ ClearInv => ClearLeavesNothing
  BY NothingIsLeft
<1> QED
  BY <1>1, <1>2, <1>3, SessionTypes, LitHasAnOwner, PTL DEF Spec

(***************************************************************************)
(* Fades and trees, object by object                                       *)
(***************************************************************************)

\* An FSM after a step of the system: one that was there, a new one, or one whose
\* fader or tree has made a step.
Descends(o) ==
    \/ \E k \in DOMAIN loaded : o = loaded[k]
    \/ \E fp \in Loadable : o = New(fp)
    \/ \E k \in DOMAIN loaded :
          /\ loaded[k].fp.id = "FSM_FADE" /\ o.fp.id = "FSM_FADE"
          /\ o.fader = Faded(loaded[k].fader)
    \/ \E k \in DOMAIN loaded :
          /\ loaded[k].fp.id = "FSM_CHRISTMASTREE" /\ o.fp.id = "FSM_CHRISTMASTREE"
          /\ o.tree = TreeStepped(loaded[k].tree)
    \/ o.fp.id \notin {"FSM_FADE", "FSM_CHRISTMASTREE"}

LEMMA StepDescends ==
    ASSUME BoardTypeOK, StepFsm
    PROVE  \A i \in DOMAIN loaded' : Descends(loaded'[i])
<1>1. SameFsms
  BY StepFsmType
<1> SUFFICES ASSUME NEW k \in DOMAIN loaded,
                    \/ StepFade(k) \/ StepTree(k) \/ StepBlink(k) \/ StepToggle(k)
                    \/ StepBattery(k) \/ StepMimic(k) \/ TimeOut(k)
             PROVE  \A i \in DOMAIN loaded' : Descends(loaded'[i])
  BY DEF StepFsm
<1>2. loaded'[k].fp = loaded[k].fp /\ DOMAIN loaded' = DOMAIN loaded
  BY <1>1 DEF SameFsms
<1>3. \A j \in DOMAIN loaded : j # k => loaded'[j] = loaded[j]
  <2>1. CASE TimeOut(k)
    BY <2>1 DEF TimeOut
  <2>2. CASE ~TimeOut(k)
    BY <2>2, OneObjectChanges
  <2> QED
    BY <2>1, <2>2
<1>4. Descends(loaded'[k])
  <2>1. loaded[k] \in Objects
    BY DEF BoardTypeOK
  <2>2. CASE StepFade(k)
    <3>1. loaded[k].fp.id = "FSM_FADE"
      BY <2>2 DEF StepFade, Is
    <3>2. loaded[k] \in [fp : Loads({"FSM_FADE"}), fader : Faders]
      BY <2>1, <3>1, ObjectFields
    <3>3. loaded' = [loaded EXCEPT ![k] =
                        [loaded[k] EXCEPT !.fader = Faded(loaded[k].fader)]]
      BY <2>2 DEF StepFade
    <3>4. loaded'[k] = [loaded[k] EXCEPT !.fader = Faded(loaded[k].fader)]
      BY <3>3 DEF BoardTypeOK
    <3>5. loaded'[k].fader = Faded(loaded[k].fader)
      BY <3>2, <3>4
    <3> QED
      BY <1>2, <3>1, <3>5 DEF Descends
  <2>3. CASE StepTree(k)
    <3>1. loaded[k].fp.id = "FSM_CHRISTMASTREE"
      BY <2>3 DEF StepTree, Is
    <3>2. loaded[k] \in [fp : Loads({"FSM_CHRISTMASTREE"}), tree : Trees]
      BY <2>1, <3>1, ObjectFields
    <3>3. loaded' = [loaded EXCEPT ![k] =
                        [loaded[k] EXCEPT !.tree = TreeStepped(loaded[k].tree)]]
      BY <2>3 DEF StepTree
    <3>4. loaded'[k] = [loaded[k] EXCEPT !.tree = TreeStepped(loaded[k].tree)]
      BY <3>3 DEF BoardTypeOK
    <3>5. loaded'[k].tree = TreeStepped(loaded[k].tree)
      BY <3>2, <3>4
    <3> QED
      BY <1>2, <3>1, <3>5 DEF Descends
  <2>4. CASE StepBlink(k) \/ StepToggle(k) \/ StepBattery(k) \/ StepMimic(k) \/ TimeOut(k)
    <3>1. loaded[k].fp.id \notin {"FSM_FADE", "FSM_CHRISTMASTREE"}
      BY <2>4 DEF StepBlink, StepToggle, StepBattery, StepMimic, TimeOut, Is
    <3> QED
      BY <1>2, <3>1 DEF Descends
  <2> QED
    BY <2>2, <2>3, <2>4
<1> QED
  BY <1>2, <1>3, <1>4 DEF Descends

LEMMA NextDescends ==
    ASSUME TypeOK, [Next]_session
    PROVE  \A i \in DOMAIN loaded' : Descends(loaded'[i])
<1>1. BoardTypeOK
  BY DEF TypeOK
<1>2. CASE UNCHANGED loaded
  BY <1>2 DEF Descends
<1>3. CASE Console
  BY <1>2, <1>3
     DEF Console, CallCreate, CallDestroy, CallCommand, SetBridge, CallClear, Arrive,
         GiveUp, DestroyNext, board
<1>4. CASE SerialCallback
  <2> DEFINE m == Head(rx)
  <2>1. m \in Requests /\ Handle(m)
    BY <1>4, HeadType DEF SerialCallback, TypeOK
  <2>2. ASSUME m.kind = "CREATE", Create(m.fp)
        PROVE  \A i \in DOMAIN loaded' : Descends(loaded'[i])
    <3>1. m.fp \in Loadable
      BY <2>1, <2>2, RequestKinds
    <3>2. /\ Len(loaded) \in Nat /\ DOMAIN loaded = 1 .. Len(loaded)
          /\ DOMAIN loaded' = 1 .. Len(loaded) + 1
      BY <1>1, <2>2, <3>1, CreateType, SeqShape DEF BoardTypeOK
    <3>3. \A i \in DOMAIN loaded' : i \in DOMAIN loaded \/ i = Len(loaded) + 1
      BY <3>2
    <3> QED
      BY <1>1, <2>2, <3>1, <3>3, CreateType DEF Descends
  <2>3. ASSUME m.kind = "DESTROY", Destroy(m.fp)
        PROVE  \A i \in DOMAIN loaded' : Descends(loaded'[i])
    <3>1. m.fp \in Loadable
      BY <2>1, <2>3, RequestKinds
    <3>2. ASSUME NEW k \in DOMAIN loaded, loaded' = Removed(k)
          PROVE  \A i \in DOMAIN loaded' : Descends(loaded'[i])
      <4>1. Len(loaded) \in Nat /\ DOMAIN loaded = 1 .. Len(loaded)
        BY <1>1, SeqShape DEF BoardTypeOK
      <4>2. DOMAIN loaded' = 1 .. Len(loaded) - 1
        BY <3>2 DEF Removed
      <4>3. \A i \in DOMAIN loaded' : i \in DOMAIN loaded /\ i + 1 \in DOMAIN loaded
        BY <4>1, <4>2
      <4>4. \A i \in DOMAIN loaded' : \E j \in DOMAIN loaded : loaded'[i] = loaded[j]
        BY <1>1, <3>2, <4>2, <4>3, RemovedType DEF BoardTypeOK
      <4> QED
        BY <4>4 DEF Descends
    <3> QED
      BY <1>1, <1>2, <2>3, <3>1, <3>2, DestroyType
  <2>4. ASSUME m.kind = "COMMAND", Command(m.msg)
        PROVE  \A i \in DOMAIN loaded' : Descends(loaded'[i])
    <3>1. m.msg \in Commands
      BY <2>1, <2>4, RequestKinds
    <3>2. SameFsms
      BY <1>1, <2>4, <3>1, CommandType
    <3>3. \A k \in DOMAIN loaded :
             loaded[k].fp.id \in {"FSM_FADE", "FSM_CHRISTMASTREE"} => loaded'[k] = loaded[k]
      <4>1. CASE m.msg.id = "FSM_TOGGLE"
        BY <2>4, <4>1 DEF Command, CommandToggles, Is
      <4>2. CASE m.msg.id # "FSM_TOGGLE"
        BY <2>4, <4>2 DEF Command, CommandMotors, Is
      <4> QED
        BY <4>1, <4>2
    <3> QED
      BY <3>2, <3>3 DEF SameFsms, Descends
  <2> QED
    BY <1>2, <2>1, <2>2, <2>3, <2>4 DEF Handle, board
<1>5. CASE Step
  BY <1>1, <1>5, StepDescends DEF Step
<1>6. CASE UNCHANGED session
  BY <1>2, <1>6 DEF session
<1> QED
  BY <1>3, <1>4, <1>5, <1>6 DEF Next

LEMMA BootedAreNew ==
    ASSUME NEW fps \in Seq(Loadable), Booted(fps), NEW k \in DOMAIN loaded
    PROVE  \E fp \in Loadable : loaded[k] = New(fp)
<1>1. loaded = [j \in DOMAIN fps |-> New(fps[j])]
  BY DEF Booted
<1>2. k \in DOMAIN fps /\ fps[k] \in Loadable
  BY <1>1
<1> QED
  BY <1>1, <1>2

(***************************************************************************)
(* The length of a fade                                                    *)
(***************************************************************************)

\* So many steps lead from dark to full brightness, and as many back.
Rise(c, s) == c \in Nat \ {0} /\ FULL <= c * s /\ (c - 1) * s < FULL

\* A step of the brightness is truncated: a rise takes half the period, or longer,
\* but less than a whole one and a delay.
LEMMA RiseTime ==
    ASSUME NEW p \in Nat \ {0}, NEW d \in Nat, NEW s \in Nat \ {0}, NEW c,
           Rise(c, s),
           s * p <= FULL * d * 2, FULL * d * 2 < s * p + p
    PROVE  p <= 2 * (c * d) /\ (c - 1) * d < p
<1>1. FULL \in Nat \ {0} /\ c \in Nat \ {0} /\ c - 1 \in Nat
  BY FadeAssumption DEF Rise
<1>2. p <= 2 * (c * d)
  <2> SUFFICES ASSUME 2 * (c * d) + 1 <= p PROVE FALSE
    BY <1>1
  <2>1. s * (2 * (c * d) + 1) <= s * p
    BY <1>1
  <2>2. s * (2 * (c * d) + 1) = (c * s) * d * 2 + s
    BY <1>1
  <2>3. FULL * d * 2 <= (c * s) * d * 2
    <3>1. c * s \in Nat /\ FULL <= c * s
      BY <1>1 DEF Rise
    <3> DEFINE x == c * s
    <3> HIDE DEF x
    <3>2. FULL * (d * 2) <= x * (d * 2)
      BY <1>1, <3>1 DEF x
    <3> QED
      BY <1>1, <3>1, <3>2 DEF x
  <2> DEFINE A == s * p
             B == FULL * d * 2
             C == (c * s) * d * 2
  <2>4. A \in Nat /\ B \in Nat /\ C \in Nat
    BY <1>1
  <2>5. A <= B /\ B <= C /\ C + s <= A
    BY <2>1, <2>2, <2>3
  <2> HIDE DEF A, B, C
  <2> QED
    BY <2>4, <2>5
<1>3. (c - 1) * d < p
  <2> DEFINE e == c - 1
  <2>1. e \in Nat /\ e * s + 1 <= FULL
    BY <1>1 DEF Rise
  <2> HIDE DEF e
  <2> SUFFICES ASSUME p <= e * d PROVE FALSE
    BY <1>1, <2>1 DEF e
  <2>2. (e * s + 1) * (d * 2) <= FULL * (d * 2)
    BY <1>1, <2>1
  <2>3. (e * s + 1) * (d * 2) = 2 * (s * (e * d)) + 2 * d
    BY <2>1
  <2>4. s * p <= s * (e * d)
    BY <2>1
  <2>5. p <= s * p
    BY <1>1
  <2>6. FULL * (d * 2) = FULL * d * 2
    BY <1>1
  <2> DEFINE A == s * p
             B == FULL * d * 2
             C == s * (e * d)
  <2>7. A \in Nat /\ B \in Nat /\ C \in Nat
    BY <1>1, <2>1
  <2>8. 2 * C + 2 * d <= B /\ A <= C /\ p <= A /\ B < A + p
    BY <2>2, <2>3, <2>4, <2>5, <2>6
  <2> HIDE DEF A, B, C
  <2> QED
    BY <2>7, <2>8
<1> QED
  BY <1>2, <1>3

LEMMA StepTimesPeriod ==
    ASSUME NEW rate \in Rates
    PROVE  /\ rate[1] \in Nat \ {0} /\ rate[2] \in Nat
           /\ BrightnessStep(rate) \in Nat \ {0}
           /\ BrightnessStep(rate) * rate[1] <= FULL * rate[2] * 2
           /\ FULL * rate[2] * 2 < BrightnessStep(rate) * rate[1] + rate[1]
<1>1. rate[1] \in Nat \ {0} /\ rate[2] \in Nat /\ BrightnessStep(rate) \in Nat \ {0}
  BY StepIsPositive
<1> DEFINE n == FULL * rate[2] * 2
           p == rate[1]
           s == BrightnessStep(rate)
<1>2. n \in Nat /\ n < LongMod /\ LongMod \in Nat \ {0}
  BY <1>1, FadeAssumption DEF RateIsSane
<1> HIDE DEF n
<1>3. n % LongMod = n
  BY <1>2
<1>4. s = n \div p
  BY <1>3 DEF BrightnessStep, n
<1> HIDE DEF p, s
<1>5. p \in Nat \ {0}
  BY <1>1 DEF p
<1>6. n % p \in 0 .. p - 1 /\ n = p * (n \div p) + (n % p) /\ n \div p \in Nat
  BY <1>2, <1>5
<1>7. p * (n \div p) = s * p
  BY <1>4, <1>5, <1>6
<1> DEFINE A == s * p
<1>8. A \in Nat
  BY <1>4, <1>5, <1>6
<1>9. n = A + (n % p) /\ n % p \in Nat /\ n % p < p
  BY <1>5, <1>6, <1>7
<1> HIDE DEF A
<1>10. A <= n /\ n < A + p
  BY <1>2, <1>5, <1>8, <1>9
<1> QED
  BY <1>1, <1>10 DEF A, n, p, s

\* What a step of an enabled fader leaves.
LEMMA FadedFields ==
    ASSUME NEW f \in Faders, f.enabled, NEW s, s = BrightnessStep(f.rate),
           NEW g, g = Faded(f)
    PROVE  /\ g.rate = f.rate /\ g.enabled
           /\ g.age = (IF f.brightness = 0 THEN f.rate[2] ELSE f.age + f.rate[2])
           /\ f.dir = "UP" /\ f.brightness + s >= FULL =>
                 g.brightness = FULL /\ g.dir = "DOWN" /\ g.peaked
           /\ f.dir = "UP" /\ ~(f.brightness + s >= FULL) =>
                 g.brightness = f.brightness + s /\ g.dir = "UP"
           /\ f.dir = "DOWN" /\ f.brightness - s <= 0 => g.brightness = 0 /\ g.dir = "UP"
           /\ f.dir = "DOWN" /\ ~(f.brightness - s <= 0) =>
                 g.brightness = f.brightness - s /\ g.dir = "DOWN"
           /\ f.dir = "DOWN" /\ f.brightness # 0 => g.peaked = f.peaked
<1> DEFINE a == Aged(f)
<1>1. /\ a \in Faders /\ a.rate = f.rate /\ a.enabled /\ a.dir = f.dir
      /\ a.brightness = f.brightness
      /\ a.age = (IF f.brightness = 0 THEN f.rate[2] ELSE f.age + f.rate[2])
      /\ f.brightness # 0 => a.peaked = f.peaked
  BY AgedType DEF Aged, Faders
<1>2. g = IF f.dir = "UP" THEN Raised(a) ELSE Lowered(a)
  BY DEF Faded
<1> HIDE DEF a
<1>3. a \in [rate : Rates, dir : {"UP", "DOWN"}, brightness : 0 .. FULL, enabled : BOOLEAN,
             age : Nat, peaked : BOOLEAN]
  BY <1>1 DEF Faders
<1>4. CASE f.dir = "UP"
  <2>1. CASE f.brightness + s >= FULL
    <3>1. g = [a EXCEPT !.brightness = FULL, !.dir = "DOWN", !.peaked = TRUE]
      BY <1>1, <1>2, <1>4, <2>1 DEF Raised
    <3> QED
      BY <1>1, <1>3, <1>4, <2>1, <3>1
  <2>2. CASE ~(f.brightness + s >= FULL)
    <3>1. g = [a EXCEPT !.brightness = f.brightness + s]
      BY <1>1, <1>2, <1>4, <2>2 DEF Raised
    <3> QED
      BY <1>1, <1>3, <1>4, <2>2, <3>1
  <2> QED
    BY <2>1, <2>2
<1>5. CASE f.dir = "DOWN"
  <2>1. CASE f.brightness - s <= 0
    <3>1. g = [a EXCEPT !.brightness = 0, !.dir = "UP"]
      BY <1>1, <1>2, <1>5, <2>1 DEF Lowered
    <3> QED
      BY <1>1, <1>3, <1>5, <2>1, <3>1
  <2>2. CASE ~(f.brightness - s <= 0)
    <3>1. g = [a EXCEPT !.brightness = f.brightness - s]
      BY <1>1, <1>2, <1>5, <2>2 DEF Lowered
    <3> QED
      BY <1>1, <1>3, <1>5, <2>2, <3>1
  <2> QED
    BY <2>1, <2>2
<1> QED
  BY <1>4, <1>5 DEF Faders

\* The number of steps made since the fader was dark gives both its brightness and
\* its age; behind a whole rise and a whole fall it has been through a cycle.
Rising(f) ==
    \E k \in Nat \ {0} :
        f.brightness = k * BrightnessStep(f.rate) /\ f.age = k * f.rate[2]
Falling(f) ==
    \E c, j \in Nat :
        /\ Rise(c, BrightnessStep(f.rate))
        /\ f.brightness = FULL - j * BrightnessStep(f.rate)
        /\ f.age = (c + j) * f.rate[2]
Course(f) ==
    /\ f.brightness = 0 => f.dir = "UP" /\ (f.age = 0 \/ WholeCycle(f))
    /\ f.brightness # 0 /\ f.dir = "UP" => f.brightness < FULL /\ Rising(f)
    /\ f.brightness # 0 /\ f.dir = "DOWN" => f.peaked /\ Falling(f)

LEMMA FadedCourse ==
    ASSUME NEW f \in Faders, Course(f)
    PROVE  Course(Faded(f))
<1> DEFINE g == Faded(f)
           s == BrightnessStep(f.rate)
           p == f.rate[1]
           d == f.rate[2]
<1>1. CASE ~f.enabled
  BY <1>1 DEF Faded
<1>2. CASE f.enabled
  <2>1. /\ p \in Nat \ {0} /\ d \in Nat /\ s \in Nat \ {0}
        /\ s * p <= FULL * d * 2 /\ FULL * d * 2 < s * p + p
    BY StepTimesPeriod DEF Faders
  <2>2. FULL \in Nat \ {0} /\ f.brightness \in 0 .. FULL /\ f.dir \in {"UP", "DOWN"}
    BY FadeAssumption DEF Faders
  <2>3. /\ g.rate = f.rate
        /\ g.age = (IF f.brightness = 0 THEN d ELSE f.age + d)
        /\ f.dir = "UP" /\ f.brightness + s >= FULL =>
              g.brightness = FULL /\ g.dir = "DOWN" /\ g.peaked
        /\ f.dir = "UP" /\ ~(f.brightness + s >= FULL) =>
              g.brightness = f.brightness + s /\ g.dir = "UP"
        /\ f.dir = "DOWN" /\ f.brightness - s <= 0 => g.brightness = 0 /\ g.dir = "UP"
        /\ f.dir = "DOWN" /\ ~(f.brightness - s <= 0) =>
              g.brightness = f.brightness - s /\ g.dir = "DOWN"
        /\ f.dir = "DOWN" /\ f.brightness # 0 => g.peaked = f.peaked
    BY <1>2, FadedFields
  <2> HIDE DEF g, s, p, d
  <2>4. ASSUME NEW k \in Nat, f.dir = "UP", f.brightness = k * s, g.age = (k + 1) * d,
               f.brightness < FULL
        PROVE  Course(g)
    <3>1. /\ k * s \in Nat /\ (k + 1) * s = k * s + s /\ (k + 1) * s \in Nat
          /\ k + 1 \in Nat \ {0} /\ (k + 1) - 1 = k
      BY <2>1
    <3>2. CASE f.brightness + s >= FULL
      <4>1. g.brightness = FULL /\ g.dir = "DOWN" /\ g.peaked
        BY <2>3, <2>4, <3>2
      <4>2. FULL <= (k + 1) * s /\ k * s < FULL
        BY <2>2, <2>4, <3>1, <3>2
      <4>3. Rise(k + 1, s)
        BY <3>1, <4>2 DEF Rise
      <4>4. FULL = FULL - 0 * s /\ (k + 1) * d = (k + 1 + 0) * d /\ FULL # 0
        BY <2>1, <2>2, <3>1
      <4>5. Falling(g)
        <5>1. /\ k + 1 \in Nat /\ 0 \in Nat
              /\ Rise(k + 1, BrightnessStep(g.rate))
              /\ g.brightness = FULL - 0 * BrightnessStep(g.rate)
              /\ g.age = (k + 1 + 0) * g.rate[2]
          BY <2>3, <2>4, <3>1, <4>1, <4>3, <4>4 DEF s, d
        <5> QED
          BY <5>1 DEF Falling
      <4> QED
        BY <4>1, <4>4, <4>5 DEF Course
    <3>3. CASE ~(f.brightness + s >= FULL)
      <4>1. g.brightness = f.brightness + s /\ g.dir = "UP"
        BY <2>3, <2>4, <3>3
      <4>2. g.brightness = (k + 1) * s /\ g.brightness # 0 /\ g.brightness < FULL
        BY <2>1, <2>2, <2>4, <3>1, <3>3, <4>1
      <4>3. Rising(g)
        BY <2>3, <2>4, <3>1, <4>2 DEF Rising, s, d
      <4> QED
        BY <4>1, <4>2, <4>3 DEF Course
    <3> QED
      BY <3>2, <3>3
  <2>5. ASSUME f.brightness = 0
        PROVE  Course(g)
    <3>1. f.dir = "UP" /\ 0 = 0 * s /\ g.age = (0 + 1) * d /\ 0 < FULL
      BY <2>1, <2>2, <2>3, <2>5 DEF Course
    <3> QED
      BY <2>4, <2>5, <3>1
  <2>6. ASSUME f.brightness # 0 /\ f.dir = "UP"
        PROVE  Course(g)
    <3>1. PICK k \in Nat \ {0} : f.brightness = k * s /\ f.age = k * d
      BY <2>6 DEF Course, Rising, s, d
    <3>2. f.brightness < FULL
      BY <2>6 DEF Course
    <3>3. g.age = (k + 1) * d
      BY <2>1, <2>3, <2>6, <3>1
    <3> QED
      BY <2>4, <2>6, <3>1, <3>2, <3>3
  <2>7. ASSUME f.brightness # 0 /\ f.dir = "DOWN"
        PROVE  Course(g)
    <3>1. f.peaked /\ Falling(f)
      BY <2>7 DEF Course
    <3>2. PICK c \in Nat, j \in Nat :
             Rise(c, s) /\ f.brightness = FULL - j * s /\ f.age = (c + j) * d
      BY <3>1 DEF Falling, s, d
    <3>3. /\ j * s \in Nat /\ (j + 1) * s = j * s + s /\ (j + 1) * s \in Nat
          /\ j + 1 \in Nat \ {0} /\ (j + 1) - 1 = j
      BY <2>1, <3>2
    <3>4. g.age = (c + (j + 1)) * d
      <4>1. (c + j) * d + d = (c + (j + 1)) * d
        BY <2>1, <3>2
      <4> QED
        BY <2>3, <2>7, <3>2, <4>1
    <3>5. g.peaked
      BY <2>3, <2>7, <3>1
    <3>6. CASE f.brightness - s <= 0
      <4>1. g.brightness = 0 /\ g.dir = "UP"
        BY <2>3, <2>7, <3>6
      <4>2. FULL <= (j + 1) * s /\ j * s < FULL
        BY <2>1, <2>2, <2>7, <3>2, <3>3, <3>6
      <4>3. Rise(j + 1, s)
        BY <3>3, <4>2 DEF Rise
      <4>4. /\ p <= 2 * (c * d) /\ (c - 1) * d < p
            /\ p <= 2 * ((j + 1) * d) /\ ((j + 1) - 1) * d < p
        BY <2>1, <3>2, <4>3, RiseTime
      <4>5. /\ c \in Nat \ {0}
            /\ c * d = (c - 1) * d + d
            /\ (j + 1) * d = j * d + d
            /\ (c + (j + 1)) * d = c * d + (j + 1) * d
            /\ c * d \in Nat /\ j * d \in Nat /\ (j + 1) * d \in Nat /\ (c - 1) * d \in Nat
        BY <2>1, <3>2 DEF Rise
      <4>6. p <= (c + (j + 1)) * d /\ (c + (j + 1)) * d < 2 * (p + d)
        <5> DEFINE A == c * d
                   B == (j + 1) * d
                   Z == (c + (j + 1)) * d
                   Y == (c - 1) * d
                   X == j * d
        <5>1. /\ A \in Nat /\ B \in Nat /\ Z = A + B /\ A = Y + d /\ B = X + d
              /\ p <= 2 * A /\ p <= 2 * B /\ Y < p /\ X < p /\ X \in Nat /\ Y \in Nat
          BY <3>3, <4>4, <4>5
        <5> HIDE DEF A, B, X, Y, Z
        <5>2. p <= Z /\ Z < 2 * (p + d)
          BY <2>1, <5>1
        <5> QED
          BY <5>2 DEF Z
      <4>7. WholeCycle(g)
        BY <2>3, <3>4, <3>5, <4>6 DEF WholeCycle, p, d
      <4> QED
        BY <4>1, <4>7 DEF Course
    <3>7. CASE ~(f.brightness - s <= 0)
      <4>1. g.brightness = f.brightness - s /\ g.dir = "DOWN"
        BY <2>3, <2>7, <3>7
      <4>2. g.brightness = FULL - (j + 1) * s /\ g.brightness # 0
        BY <2>1, <2>2, <3>2, <3>3, <3>7, <4>1
      <4>3. Falling(g)
        <5>1. /\ j + 1 \in Nat
              /\ Rise(c, BrightnessStep(g.rate))
              /\ g.brightness = FULL - (j + 1) * BrightnessStep(g.rate)
              /\ g.age = (c + (j + 1)) * g.rate[2]
          BY <2>3, <3>2, <3>3, <3>4, <4>2 DEF s, d
        <5> QED
          BY <3>2, <5>1 DEF Falling
      <4> QED
        BY <3>5, <4>1, <4>2, <4>3 DEF Course
    <3> QED
      BY <3>6, <3>7
  <2>8. Course(g)
    BY <2>2, <2>5, <2>6, <2>7
  <2> QED
    BY <2>8 DEF g
<1> QED
  BY <1>1, <1>2

FadesAreOnCourse ==
    \A k \in DOMAIN loaded : loaded[k].fp.id = "FSM_FADE" => Course(loaded[k].fader)

LEMMA NewIsOnCourse ==
    ASSUME NEW fp \in Loadable, New(fp).fp.id = "FSM_FADE"
    PROVE  Course(New(fp).fader)
<1>1. fp.id = "FSM_FADE" /\ fp.rate \in Rates
  BY NewType, FingerprintKinds
<1>2. New(fp).fader = NewFader(fp.rate)
  BY <1>1 DEF New
<1> QED
  BY <1>2 DEF NewFader, Course

LEMMA InitFades ==
    ASSUME NEW fps \in Seq(Loadable), Booted(fps)
    PROVE  FadesAreOnCourse
BY BootedAreNew, NewIsOnCourse DEF FadesAreOnCourse

LEMMA NextFades ==
    ASSUME TypeOK, FadesAreOnCourse, [Next]_session
    PROVE  FadesAreOnCourse'
<1> SUFFICES ASSUME NEW i \in DOMAIN loaded', loaded'[i].fp.id = "FSM_FADE"
             PROVE  Course(loaded'[i].fader)
  BY DEF FadesAreOnCourse
<1>1. Descends(loaded'[i])
  BY NextDescends
<1>2. CASE \E k \in DOMAIN loaded : loaded'[i] = loaded[k]
  BY <1>2 DEF FadesAreOnCourse
<1>3. CASE \E fp \in Loadable : loaded'[i] = New(fp)
  BY <1>3, NewIsOnCourse
<1>4. ASSUME NEW k \in DOMAIN loaded, loaded[k].fp.id = "FSM_FADE",
             loaded'[i].fader = Faded(loaded[k].fader)
      PROVE  Course(loaded'[i].fader)
  <2>1. loaded[k] \in Objects
    BY DEF TypeOK, BoardTypeOK
  <2>2. loaded[k].fader \in Faders
    BY <1>4, <2>1, ObjectFields
  <2> QED
    BY <1>4, <2>2, FadedCourse DEF FadesAreOnCourse
<1> QED
  BY <1>1, <1>2, <1>3, <1>4 DEF Descends

LEMMA CoursesAreWhole ==
    ASSUME TypeOK, FadesAreOnCourse
    PROVE  FadesWholeCycles
<1> SUFFICES ASSUME NEW k \in DOMAIN loaded,
                    Is(k, "FSM_FADE"), loaded[k].fader.brightness = 0,
                    loaded[k].fader.age > 0
             PROVE  WholeCycle(loaded[k].fader)
  BY DEF FadesWholeCycles
<1>1. Course(loaded[k].fader)
  BY DEF Is, FadesAreOnCourse
<1>2. loaded[k].fader.age # 0
  OBVIOUS
<1> QED
  BY <1>1, <1>2 DEF Course

\* Whatever its period and delay, and whatever else happens to it, a Fade is dark
\* again only after it has been at full brightness, and after a time between its
\* period and twice that and two delays (Fade.cpp:62, Fade.h:60).
THEOREM FadesKeepTheirPeriod == Spec => []FadesWholeCycles
<1>1. Init => FadesAreOnCourse
  BY SessionAssumption, InitFades DEF Init
<1>2. TypeOK /\ FadesAreOnCourse /\ [Next]_session => FadesAreOnCourse'
  BY NextFades
<1>3. TypeOK /\ FadesAreOnCourse => FadesWholeCycles
  BY CoursesAreWhole
<1> QED
  BY <1>1, <1>2, <1>3, SessionTypes, PTL DEF Spec

(***************************************************************************)
(* The turns of the tree's lights                                          *)
(***************************************************************************)

\* A light that is not the target is dark, or on its way there; the target is on
\* its way to full brightness, or has just reached it.
Dimming(f) ==
    \/ f.brightness = 0 /\ f.dir = "UP"
    \/ f.brightness # 0 /\ f.dir = "DOWN"
Flaring(f) ==
    \/ f.brightness < FULL /\ f.dir = "UP"
    \/ f.brightness = FULL /\ f.dir = "DOWN"

\* The light behind the target has lost half of what the target has gained, the
\* one behind that began at half brightness, and the next one is dark.
Spaced(before, second, third, target) ==
    /\ before = 0
    /\ 2 * second + target <= FULL
    /\ 2 * third + target <= 2 * FULL

Level(tree, k) == tree.fader[k].brightness
Turning(tree) ==
    LET t == tree.target
        u == Following(t)
        v == Following(u)
        w == Following(v)
    IN  /\ \A k \in Spinners : tree.fader[k].rate = TreeRate
        /\ Flaring(tree.fader[t])
        /\ \A k \in Spinners \ {t} : Dimming(tree.fader[k])
        /\ tree.state = "SpinningStart" =>
              t = 0 /\ \A k \in Spinners \ {t} : Level(tree, k) = 0
        /\ tree.state = "Spinning" =>
              Spaced(Level(tree, u), Level(tree, v), Level(tree, w), Level(tree, t))

LEMMA FourLights ==
    ASSUME NEW t \in Spinners
    PROVE  LET u == Following(t)
               v == Following(u)
               w == Following(v)
           IN  /\ {u, v, w} \subseteq Spinners
               /\ t \notin {u, v, w} /\ u \notin {v, w} /\ v # w
               /\ Following(w) = t
               /\ Spinners = {t, u, v, w}
BY DEF Following, Spinners

\* The fields of a fader that was switched.
LEMMA SwitchedFields ==
    ASSUME NEW f \in Faders
    PROVE  /\ Enabled(f) \in Faders /\ Enabled(f).enabled
           /\ Enabled(f).rate = f.rate /\ Enabled(f).dir = f.dir
           /\ Enabled(f).brightness = f.brightness
           /\ Frozen(f) \in Faders /\ ~Frozen(f).enabled
           /\ Frozen(f).rate = f.rate /\ Frozen(f).dir = f.dir
           /\ Frozen(f).brightness = f.brightness
           /\ \A dir \in {"UP", "DOWN"} :
                 /\ Aimed(f, dir) \in Faders /\ Aimed(f, dir).enabled
                 /\ Aimed(f, dir).rate = f.rate /\ Aimed(f, dir).dir = dir
                 /\ Aimed(f, dir).brightness = f.brightness
<1>1. f \in [rate : Rates, dir : {"UP", "DOWN"}, brightness : 0 .. FULL, enabled : BOOLEAN,
             age : Nat, peaked : BOOLEAN]
  BY DEF Faders
<1>2. /\ Enabled(f).enabled
      /\ Enabled(f).rate = f.rate /\ Enabled(f).dir = f.dir
      /\ Enabled(f).brightness = f.brightness
  BY <1>1 DEF Enabled
<1>3. /\ ~Frozen(f).enabled
      /\ Frozen(f).rate = f.rate /\ Frozen(f).dir = f.dir
      /\ Frozen(f).brightness = f.brightness
  BY <1>1 DEF Frozen
<1>4. ASSUME NEW dir \in {"UP", "DOWN"}
      PROVE  /\ Aimed(f, dir).enabled
             /\ Aimed(f, dir).rate = f.rate /\ Aimed(f, dir).dir = dir
             /\ Aimed(f, dir).brightness = f.brightness
  BY <1>1 DEF Aimed
<1> QED
  BY <1>2, <1>3, <1>4, SwitchedType

LEMMA FrozenStays ==
    ASSUME NEW f, ~f.enabled
    PROVE  Faded(f) = f
BY DEF Faded

\* A light that dims loses a step, and stops when it is dark.
LEMMA Dims ==
    ASSUME NEW f \in Faders, Dimming(f),
           NEW g, g = Faded(IF f.brightness # 0 THEN Enabled(f) ELSE Frozen(f))
    PROVE  /\ g.rate = f.rate /\ Dimming(g)
           /\ \/ g.brightness = 0
              \/ f.brightness # 0 /\ g.brightness = f.brightness - BrightnessStep(f.rate)
<1>1. CASE f.brightness = 0
  <2>1. g = Frozen(f)
    BY <1>1, FrozenStays, SwitchedFields
  <2> QED
    BY <1>1, <2>1, SwitchedFields DEF Dimming
<1>2. CASE f.brightness # 0
  <2> DEFINE e == Enabled(f)
             s == BrightnessStep(f.rate)
  <2>1. /\ e \in Faders /\ e.enabled /\ e.rate = f.rate /\ e.dir = "DOWN"
        /\ e.brightness = f.brightness /\ g = Faded(e)
    BY <1>2, SwitchedFields DEF Dimming
  <2> HIDE DEF e
  <2>2. /\ g.rate = e.rate
        /\ e.dir = "DOWN" /\ e.brightness - s <= 0 => g.brightness = 0 /\ g.dir = "UP"
        /\ e.dir = "DOWN" /\ ~(e.brightness - s <= 0) =>
              g.brightness = e.brightness - s /\ g.dir = "DOWN"
    <3>1. s = BrightnessStep(e.rate)
      BY <2>1
    <3> HIDE DEF s
    <3> QED
      BY <2>1, <3>1, FadedFields
  <2>3. f.brightness \in Nat /\ s \in Nat
    BY StepIsPositive, FadeAssumption DEF Faders
  <2> HIDE DEF s
  <2>4. CASE f.brightness - s <= 0
    BY <2>1, <2>2, <2>4 DEF Dimming
  <2>5. CASE ~(f.brightness - s <= 0)
    <3>1. g.brightness = f.brightness - s /\ g.dir = "DOWN" /\ g.brightness # 0
      BY <2>1, <2>2, <2>3, <2>5
    <3> QED
      BY <1>2, <2>1, <2>2, <3>1 DEF Dimming, s
  <2> QED
    BY <2>4, <2>5
<1> QED
  BY <1>1, <1>2

\* One step up.
LEMMA Rises ==
    ASSUME NEW f \in Faders, f.enabled, f.brightness < FULL, f.dir = "UP"
    PROVE  /\ Faded(f) \in Faders /\ Faded(f).enabled /\ Faded(f).rate = f.rate
           /\ Flaring(Faded(f))
           /\ Faded(f).brightness <= f.brightness + BrightnessStep(f.rate)
<1> DEFINE g == Faded(f)
           s == BrightnessStep(f.rate)
<1>1. /\ g.rate = f.rate /\ g.enabled
      /\ f.dir = "UP" /\ f.brightness + s >= FULL =>
            g.brightness = FULL /\ g.dir = "DOWN"
      /\ f.dir = "UP" /\ ~(f.brightness + s >= FULL) =>
            g.brightness = f.brightness + s /\ g.dir = "UP"
  BY FadedFields
<1>2. f.brightness \in Nat /\ s \in Nat /\ FULL \in Nat
  BY StepIsPositive, FadeAssumption DEF Faders
<1>3. g \in Faders
  BY FadedType
<1> HIDE DEF g, s
<1>4. CASE f.brightness + s >= FULL
  <2>1. g.brightness = FULL /\ g.dir = "DOWN" /\ FULL <= f.brightness + s
    BY <1>1, <1>2, <1>4
  <2>2. Flaring(g)
    BY <2>1 DEF Flaring
  <2>3. g.brightness <= f.brightness + s
    BY <2>1
  <2> QED
    BY <1>1, <1>3, <2>2, <2>3 DEF g, s
<1>5. CASE ~(f.brightness + s >= FULL)
  <2>1. g.brightness = f.brightness + s /\ g.dir = "UP" /\ g.brightness < FULL
    BY <1>1, <1>2, <1>5
  <2>2. Flaring(g)
    BY <2>1 DEF Flaring
  <2>3. g.brightness <= f.brightness + s
    BY <1>2, <2>1
  <2> QED
    BY <1>1, <1>3, <2>2, <2>3 DEF g, s
<1> QED
  BY <1>4, <1>5

\* The target makes two steps, if the first has not taken it to the end.
LEMMA Flares ==
    ASSUME NEW f \in Faders, f.brightness < FULL, f.dir = "UP",
           NEW g, g = IF Faded(Enabled(f)).brightness < FULL
                      THEN Faded(Faded(Enabled(f))) ELSE Faded(Enabled(f))
    PROVE  /\ g \in Faders /\ g.rate = f.rate /\ Flaring(g)
           /\ g.brightness <= f.brightness + 2 * BrightnessStep(f.rate)
<1> DEFINE e == Enabled(f)
           h == Faded(e)
           s == BrightnessStep(f.rate)
<1>1. /\ e \in Faders /\ e.enabled /\ e.rate = f.rate /\ e.dir = "UP"
      /\ e.brightness = f.brightness
  BY SwitchedFields
<1>2. f.brightness \in Nat /\ s \in Nat /\ FULL \in Nat
  BY StepIsPositive, FadeAssumption DEF Faders
<1>3. g = IF h.brightness < FULL THEN Faded(h) ELSE h
  OBVIOUS
<1> HIDE DEF e
<1>4. /\ h \in Faders /\ h.enabled /\ h.rate = f.rate /\ Flaring(h)
      /\ h.brightness <= f.brightness + s
  <2>1. h \in Faders /\ h.enabled /\ h.rate = e.rate /\ Flaring(h)
        /\ h.brightness <= e.brightness + BrightnessStep(e.rate)
    BY <1>1, Rises
  <2> QED
    BY <1>1, <2>1
<1> HIDE DEF h
<1>5. h.brightness \in 0 .. FULL
  BY <1>4 DEF Faders
<1>6. CASE h.brightness < FULL
  <2>1. h.dir = "UP"
    BY <1>2, <1>4, <1>5, <1>6 DEF Flaring
  <2>2. /\ g \in Faders /\ g.rate = h.rate /\ Flaring(g)
        /\ g.brightness <= h.brightness + BrightnessStep(h.rate)
    BY <1>3, <1>4, <1>6, <2>1, Rises
  <2>3. g.brightness <= h.brightness + s /\ g.brightness \in 0 .. FULL
    BY <1>4, <2>2 DEF Faders
  <2> HIDE DEF s
  <2>4. g.brightness <= f.brightness + 2 * s
    BY <1>2, <1>4, <1>5, <2>3
  <2> QED
    BY <1>4, <2>2, <2>4 DEF s
<1>7. CASE ~(h.brightness < FULL)
  <2> HIDE DEF s
  <2>1. h.brightness <= f.brightness + 2 * s
    BY <1>2, <1>4, <1>5
  <2> QED
    BY <1>3, <1>4, <1>7, <2>1 DEF s
<1> QED
  BY <1>6, <1>7

LEMMA TreeFields ==
    ASSUME NEW tree \in Trees
    PROVE  /\ tree.state \in {"SpinningStart", "Spinning"}
           /\ tree.target \in Spinners /\ tree.target \in Lights
           /\ \A k \in Lights : tree.fader[k] \in Faders
           /\ \A k \in Spinners : k \in Lights /\ tree.fader[k] \in Faders
BY SpinnersAreLights DEF Trees

\* Behind the transition every fader makes a step, and the target may make two.
LEMMA SteppedFields ==
    ASSUME NEW tree \in Trees, NEW next, next = Transition(tree)
    PROVE  /\ TreeStepped(tree).state = next.state
           /\ TreeStepped(tree).target = next.target
           /\ \A k \in Lights :
                 TreeStepped(tree).fader[k] =
                    IF /\ next.state = "Spinning"
                       /\ k = next.target
                       /\ Faded(next.fader[k]).brightness < FULL
                    THEN Faded(Faded(next.fader[k])) ELSE Faded(next.fader[k])
<1> DEFINE Twice(k) == /\ next.state = "Spinning"
                       /\ k = next.target
                       /\ Faded(next.fader[k]).brightness < FULL
           faders == [k \in Lights |->
               IF Twice(k) THEN Faded(Faded(next.fader[k])) ELSE Faded(next.fader[k])]
<1>1. next \in Trees
  BY TransitionType
<1>2. TreeStepped(tree) = [next EXCEPT !.fader = faders]
  BY DEF TreeStepped
<1> HIDE DEF faders
<1>3. /\ TreeStepped(tree).state = next.state
      /\ TreeStepped(tree).target = next.target
      /\ TreeStepped(tree).fader = faders
  BY <1>1, <1>2 DEF Trees
<1> QED
  BY <1>3 DEF faders

\* A spinning tree's step, light by light.
LEMMA SpunFields ==
    ASSUME NEW tree \in Trees, tree.state = "Spinning",
           NEW t, t = IF Level(tree, tree.target) = FULL
                      THEN Following(tree.target) ELSE tree.target,
           NEW next, next = TreeStepped(tree)
    PROVE  /\ next.state = "Spinning" /\ next.target = t
           /\ next.fader[t] =
                 IF Faded(Enabled(tree.fader[t])).brightness < FULL
                 THEN Faded(Faded(Enabled(tree.fader[t])))
                 ELSE Faded(Enabled(tree.fader[t]))
           /\ \A k \in Spinners \ {t} :
                 next.fader[k] =
                    Faded(IF Level(tree, k) # 0 THEN Enabled(tree.fader[k])
                          ELSE Frozen(tree.fader[k]))
<1> DEFINE spun == Transition(tree)
           GoesOn(k) == k = t \/ tree.fader[k].brightness # 0
           faders == [k \in Lights |->
                         IF k \notin Spinners THEN tree.fader[k]
                         ELSE IF GoesOn(k) THEN Enabled(tree.fader[k])
                         ELSE Frozen(tree.fader[k])]
<1>1. t \in Spinners /\ t \in Lights
  BY TreeFields, FollowingType, SpinnersAreLights
<1>2. spun = [tree EXCEPT !.target = t, !.fader = faders]
  BY DEF Transition, Spin, Level
<1> HIDE DEF faders
<1>3. spun.state = "Spinning" /\ spun.target = t /\ spun.fader = faders
  BY <1>2 DEF Trees
<1>4. faders[t] = Enabled(tree.fader[t])
  BY <1>1 DEF faders
<1>5. ASSUME NEW k \in Spinners \ {t}
      PROVE  /\ k \in Lights
             /\ faders[k] = IF Level(tree, k) # 0 THEN Enabled(tree.fader[k])
                            ELSE Frozen(tree.fader[k])
  BY SpinnersAreLights DEF faders, Level
<1> HIDE DEF spun
<1>6. /\ next.state = spun.state /\ next.target = spun.target
      /\ \A k \in Lights :
            next.fader[k] =
               IF /\ spun.state = "Spinning"
                  /\ k = spun.target
                  /\ Faded(spun.fader[k]).brightness < FULL
               THEN Faded(Faded(spun.fader[k])) ELSE Faded(spun.fader[k])
  BY SteppedFields DEF spun
<1>7. next.fader[t] = IF Faded(faders[t]).brightness < FULL
                      THEN Faded(Faded(faders[t])) ELSE Faded(faders[t])
  BY <1>1, <1>3, <1>6
<1>8. ASSUME NEW k \in Spinners \ {t}
      PROVE  next.fader[k] = Faded(faders[k])
  BY <1>3, <1>5, <1>6
<1> QED
  BY <1>3, <1>4, <1>5, <1>6, <1>7, <1>8

\* While it starts, the first light rises, and the others are held.
LEMMA RevvedFields ==
    ASSUME NEW tree \in Trees, tree.state = "SpinningStart", Turning(tree),
           NEW f, f = tree.fader[0], NEW next, next = TreeStepped(tree)
    PROVE  \/ /\ next.state = "SpinningStart" /\ next.target = 0
              /\ next.fader[0] = Faded(IF f.brightness = FULL THEN Frozen(f)
                                       ELSE Aimed(f, "UP"))
              /\ \A k \in Spinners \ {0} : next.fader[k] = Frozen(tree.fader[k])
           \/ /\ f.brightness = FULL
              /\ next.state = "Spinning" /\ next.target = Following(0)
              /\ next.fader[0] = Faded(Enabled(Frozen(f)))
              /\ \A k \in Spinners \ {0} : next.fader[k] = Frozen(tree.fader[k])
<1> DEFINE revved == Transition(tree)
           held == [k \in Lights |->
                 IF InPlace(tree, k) THEN Frozen(tree.fader[k])
                 ELSE Aimed(tree.fader[k], IF k = tree.target THEN "UP" ELSE "DOWN")]
<1>1. /\ tree.target = 0 /\ 0 \in Spinners /\ 0 \in Lights
      /\ \A k \in Spinners \ {0} : Level(tree, k) = 0
  BY DEF Turning, Spinners, Lights
<1>2. Following(0) \in Spinners \ {0}
  BY DEF Following, Spinners
<1>3. ASSUME NEW k \in Spinners \ {0}
      PROVE  /\ k \in Lights /\ held[k] = Frozen(tree.fader[k])
             /\ Faded(held[k]) = held[k] /\ Faded(Faded(held[k])) = held[k]
  <2>1. k \in Lights /\ InPlace(tree, k)
    BY <1>1, SpinnersAreLights DEF InPlace, Level
  <2>2. held[k] = Frozen(tree.fader[k])
    BY <2>1
  <2>3. ~Frozen(tree.fader[k]).enabled
    BY <2>1, TreeFields, SwitchedFields
  <2> QED
    BY <2>1, <2>2, <2>3, FrozenStays
<1>4. held[0] = IF f.brightness = FULL THEN Frozen(f) ELSE Aimed(f, "UP")
  BY <1>1 DEF InPlace
<1>5. revved = IF \A k \in Lights : InPlace(tree, k)
               THEN [state |-> "Spinning", target |-> Following(tree.target),
                     fader |-> [held EXCEPT ![tree.target] = Enabled(@)]]
               ELSE [tree EXCEPT !.fader = held]
  BY DEF Transition, RevUp
<1>6. tree \in [state : {"SpinningStart", "Spinning"}, target : Spinners,
                fader : [Lights -> Faders]] /\ DOMAIN held = Lights
  BY DEF Trees
<1>7. (\A k \in Lights : InPlace(tree, k)) => f.brightness = FULL
  BY <1>1 DEF InPlace
<1> HIDE DEF held, revved
<1>8. /\ next.state = revved.state /\ next.target = revved.target
      /\ \A k \in Lights :
            next.fader[k] =
               IF /\ revved.state = "Spinning"
                  /\ k = revved.target
                  /\ Faded(revved.fader[k]).brightness < FULL
               THEN Faded(Faded(revved.fader[k])) ELSE Faded(revved.fader[k])
  BY SteppedFields DEF revved
<1>9. CASE \A k \in Lights : InPlace(tree, k)
  <2>1. /\ revved.state = "Spinning" /\ revved.target = Following(0)
        /\ revved.fader = [held EXCEPT ![0] = Enabled(held[0])]
    BY <1>1, <1>5, <1>9
  <2>2. revved.fader[0] = Enabled(Frozen(f))
    BY <1>1, <1>4, <1>6, <1>7, <1>9, <2>1
  <2>3. \A k \in Spinners \ {0} : revved.fader[k] = held[k]
    BY <1>3, <1>6, <2>1
  <2>4. next.fader[0] = Faded(Enabled(Frozen(f)))
    BY <1>1, <1>2, <1>8, <2>1, <2>2
  <2>5. \A k \in Spinners \ {0} : next.fader[k] = Frozen(tree.fader[k])
    BY <1>3, <1>8, <2>3
  <2> QED
    BY <1>7, <1>8, <1>9, <2>1, <2>4, <2>5
<1>10. CASE ~(\A k \in Lights : InPlace(tree, k))
  <2>1. revved = [tree EXCEPT !.fader = held]
    BY <1>5, <1>10
  <2>2. revved.state = "SpinningStart" /\ revved.target = 0 /\ revved.fader = held
    BY <1>1, <1>6, <2>1
  <2>3. \A k \in Lights : next.fader[k] = Faded(held[k])
    BY <1>8, <2>2
  <2>4. \A k \in Spinners \ {0} : next.fader[k] = Frozen(tree.fader[k])
    BY <1>3, <2>3
  <2>5. next.fader[0] = Faded(held[0])
    BY <1>1, <2>3
  <2> QED
    BY <1>4, <1>8, <2>2, <2>4, <2>5
<1> QED
  BY <1>9, <1>10

\* The lights behind the target lose what the target gains; when it is at full
\* brightness the next one takes its place.
LEMMA SpacedKept ==
    ASSUME NEW s \in Nat, NEW a \in 0 .. FULL, NEW b \in 0 .. FULL, NEW c \in 0 .. FULL,
           NEW d \in 0 .. FULL, Spaced(a, b, c, d),
           NEW aa, NEW bb, NEW cc, NEW dd \in 0 .. FULL,
           aa = 0 \/ (a # 0 /\ aa = a - s),
           bb = 0 \/ (b # 0 /\ bb = b - s),
           cc = 0 \/ (c # 0 /\ cc = c - s),
           dd <= d + 2 * s
    PROVE  Spaced(aa, bb, cc, dd)
BY FadeAssumption DEF Spaced

LEMMA SpacedOn ==
    ASSUME NEW s \in Nat, NEW a \in 0 .. FULL, NEW b \in 0 .. FULL, NEW c \in 0 .. FULL,
           NEW d, d = FULL, Spaced(a, b, c, d),
           NEW aa \in 0 .. FULL, NEW bb, NEW cc, NEW dd,
           aa <= a + 2 * s,
           bb = 0 \/ (b # 0 /\ bb = b - s),
           cc = 0 \/ (c # 0 /\ cc = c - s),
           dd = 0 \/ (d # 0 /\ dd = d - s)
    PROVE  Spaced(bb, cc, dd, aa)
BY FadeAssumption DEF Spaced

LEMMA TreeRateIsSane ==
    BrightnessStep(TreeRate) \in Nat \ {0} /\ FULL \in Nat \ {0}
BY TreeAssumption, FadeAssumption, StepIsPositive

LEMMA NewTreeTurns == Turning(NewTree)
<1>1. /\ NewTree.state = "SpinningStart" /\ NewTree.target = 0
      /\ \A k \in Spinners : NewTree.fader[k] = NewFader(TreeRate)
  BY SpinnersAreLights DEF NewTree
<1>2. /\ NewFader(TreeRate).rate = TreeRate /\ NewFader(TreeRate).brightness = 0
      /\ NewFader(TreeRate).dir = "UP"
  BY DEF NewFader
<1>3. Dimming(NewFader(TreeRate)) /\ Flaring(NewFader(TreeRate))
  BY <1>2, TreeRateIsSane DEF Dimming, Flaring
<1>4. 0 \in Spinners
  BY DEF Spinners
<1> QED
  BY <1>1, <1>2, <1>3, <1>4 DEF Turning, Level

LEMMA StartTurns ==
    ASSUME NEW tree \in Trees, tree.state = "SpinningStart", Turning(tree)
    PROVE  Turning(TreeStepped(tree))
<1> DEFINE next == TreeStepped(tree)
           f == tree.fader[0]
           g == next.fader[0]
           s == BrightnessStep(TreeRate)
<1>1. /\ tree.target = 0 /\ 0 \in Spinners /\ f \in Faders /\ f.rate = TreeRate /\ Flaring(f)
      /\ \A k \in Spinners \ {0} :
            /\ Level(tree, k) = 0 /\ tree.fader[k].rate = TreeRate /\ Dimming(tree.fader[k])
            /\ tree.fader[k] \in Faders
  BY TreeFields DEF Turning, Spinners
<1>2. s \in Nat \ {0} /\ FULL \in Nat \ {0} /\ f.brightness \in 0 .. FULL
  BY <1>1, TreeRateIsSane DEF Faders
<1>3. \/ /\ next.state = "SpinningStart" /\ next.target = 0
         /\ g = Faded(IF f.brightness = FULL THEN Frozen(f) ELSE Aimed(f, "UP"))
         /\ \A k \in Spinners \ {0} : next.fader[k] = Frozen(tree.fader[k])
      \/ /\ f.brightness = FULL
         /\ next.state = "Spinning" /\ next.target = Following(0)
         /\ g = Faded(Enabled(Frozen(f)))
         /\ \A k \in Spinners \ {0} : next.fader[k] = Frozen(tree.fader[k])
  BY RevvedFields
<1> HIDE DEF next, f, g
<1>4. ASSUME NEW k \in Spinners \ {0}
      PROVE  /\ next.fader[k].rate = TreeRate /\ next.fader[k].brightness = 0
             /\ next.fader[k].dir = "UP" /\ Dimming(next.fader[k]) /\ Flaring(next.fader[k])
  <2>1. next.fader[k] = Frozen(tree.fader[k])
    BY <1>3
  <2>2. /\ tree.fader[k] \in Faders /\ tree.fader[k].brightness = 0
        /\ tree.fader[k].rate = TreeRate /\ Dimming(tree.fader[k])
    BY <1>1 DEF Level
  <2>3. /\ next.fader[k].rate = TreeRate /\ next.fader[k].brightness = 0
        /\ next.fader[k].dir = "UP"
    BY <2>1, <2>2, SwitchedFields DEF Dimming
  <2> QED
    BY <1>2, <2>3 DEF Dimming, Flaring
<1>5. ASSUME next.state = "SpinningStart", next.target = 0,
             g = Faded(IF f.brightness = FULL THEN Frozen(f) ELSE Aimed(f, "UP"))
      PROVE  Turning(next)
  <2>1. g.rate = TreeRate /\ Flaring(g)
    <3>1. CASE f.brightness = FULL
      <4>1. g = Frozen(f)
        BY <1>1, <1>5, <3>1, SwitchedFields, FrozenStays
      <4> QED
        BY <1>1, <4>1, SwitchedFields DEF Flaring
    <3>2. CASE f.brightness # FULL
      <4> DEFINE e == Aimed(f, "UP")
      <4>1. /\ e \in Faders /\ e.enabled /\ e.rate = f.rate /\ e.dir = "UP"
            /\ e.brightness = f.brightness
        BY <1>1, SwitchedFields
      <4>2. g = Faded(e)
        BY <1>5, <3>2
      <4> HIDE DEF e
      <4>3. e.brightness < FULL
        BY <1>2, <3>2, <4>1
      <4> QED
        BY <1>1, <4>1, <4>2, <4>3, Rises
    <3> QED
      BY <3>1, <3>2
  <2>2. \A k \in Spinners : next.fader[k].rate = TreeRate
    BY <1>4, <2>1 DEF g
  <2>3. \A k \in Spinners \ {0} : Dimming(next.fader[k]) /\ Level(next, k) = 0
    BY <1>4 DEF Level
  <2> QED
    BY <1>5, <2>1, <2>2, <2>3 DEF Turning, g
<1>6. ASSUME f.brightness = FULL, next.state = "Spinning", next.target = Following(0),
             g = Faded(Enabled(Frozen(f)))
      PROVE  Turning(next)
  <2> DEFINE u == Following(0)
             v == Following(u)
             w == Following(v)
  <2>1. /\ u \in Spinners /\ v \in Spinners /\ w \in Spinners
        /\ 0 \notin {u, v, w} /\ u # v /\ u # w /\ v # w
        /\ Following(w) = 0 /\ Spinners = {0, u, v, w}
    BY <1>1, FourLights
  <2>2. g.rate = TreeRate /\ Dimming(g) /\ (g.brightness = 0 \/ g.brightness = FULL - s)
    <3> DEFINE e == Frozen(f)
    <3>1. e \in Faders /\ e.rate = TreeRate /\ e.dir = f.dir /\ e.brightness = FULL
      BY <1>1, <1>6, SwitchedFields
    <3>2. g = Faded(Enabled(e))
      BY <1>6
    <3> HIDE DEF e
    <3>3. e.brightness # 0 /\ Dimming(e)
      BY <1>1, <1>2, <1>6, <3>1 DEF Flaring, Dimming
    <3>4. g = Faded(IF e.brightness # 0 THEN Enabled(e) ELSE Frozen(e))
      BY <3>2, <3>3
    <3>5. /\ g.rate = e.rate /\ Dimming(g)
          /\ g.brightness = 0 \/ g.brightness = e.brightness - BrightnessStep(e.rate)
      BY <3>1, <3>3, <3>4, Dims
    <3> QED
      BY <3>1, <3>5
  <2> HIDE DEF u, v, w
  <2>3. /\ Level(next, u) = 0 /\ Level(next, v) = 0 /\ Level(next, w) = 0
        /\ Flaring(next.fader[u]) /\ Level(next, 0) = g.brightness
    BY <1>4, <2>1 DEF Level, g
  <2>4. \A k \in Spinners : next.fader[k].rate = TreeRate
    BY <1>4, <2>2 DEF g
  <2>5. \A k \in Spinners \ {u} : Dimming(next.fader[k])
    BY <1>4, <2>2 DEF g
  <2>6. Spaced(0, 0, g.brightness, 0)
    <3> HIDE DEF s
    <3> QED
      BY <1>2, <2>2 DEF Spaced
  <2>7. Spaced(Level(next, v), Level(next, w), Level(next, 0), Level(next, u))
    BY <2>3, <2>6
  <2>8. next.target = u /\ Following(u) = v /\ Following(v) = w /\ Following(w) = 0
    BY <1>6, <2>1 DEF u, v, w
  <2> QED
    BY <1>6, <2>3, <2>4, <2>5, <2>7, <2>8 DEF Turning
<1>7. Turning(next)
  BY <1>3, <1>5, <1>6
<1> QED
  BY <1>7 DEF next

LEMMA SpinTurns ==
    ASSUME NEW tree \in Trees, tree.state = "Spinning", Turning(tree)
    PROVE  Turning(TreeStepped(tree))
<1> DEFINE next == TreeStepped(tree)
           s == BrightnessStep(TreeRate)
           t == tree.target
           u == Following(t)
           v == Following(u)
           w == Following(v)
           goal == IF Level(tree, t) = FULL THEN u ELSE t
           Down(k) == \/ Level(next, k) = 0
                      \/ Level(tree, k) # 0 /\ Level(next, k) = Level(tree, k) - s
<1>1. /\ t \in Spinners /\ u \in Spinners /\ v \in Spinners /\ w \in Spinners
      /\ t # u /\ t # v /\ t # w /\ u # v /\ u # w /\ v # w
      /\ Following(w) = t /\ Spinners = {t, u, v, w}
  BY TreeFields, FourLights
<1>2. /\ Flaring(tree.fader[t]) /\ \A k \in Spinners \ {t} : Dimming(tree.fader[k])
      /\ Spaced(Level(tree, u), Level(tree, v), Level(tree, w), Level(tree, t))
      /\ \A k \in Spinners : tree.fader[k].rate = TreeRate
  BY DEF Turning
<1>3. /\ next.state = "Spinning" /\ next.target = goal
      /\ next.fader[goal] =
            IF Faded(Enabled(tree.fader[goal])).brightness < FULL
            THEN Faded(Faded(Enabled(tree.fader[goal])))
            ELSE Faded(Enabled(tree.fader[goal]))
      /\ \A k \in Spinners \ {goal} :
            next.fader[k] =
               Faded(IF Level(tree, k) # 0 THEN Enabled(tree.fader[k])
                     ELSE Frozen(tree.fader[k]))
  BY SpunFields
<1>4. s \in Nat \ {0} /\ FULL \in Nat \ {0}
  BY TreeRateIsSane
<1>5. \A k \in Spinners : tree.fader[k] \in Faders /\ Level(tree, k) \in 0 .. FULL
  BY TreeFields DEF Level, Faders
<1>6. Level(tree, u) = 0
  BY <1>2 DEF Spaced
<1>7. goal \in Spinners /\ tree.fader[goal].brightness < FULL /\ tree.fader[goal].dir = "UP"
  <2>1. CASE Level(tree, t) = FULL
    <3>1. goal = u /\ tree.fader[u].brightness = 0 /\ Dimming(tree.fader[u])
      BY <1>1, <1>2, <1>6, <2>1 DEF Level
    <3> QED
      BY <1>1, <1>4, <3>1 DEF Dimming
  <2>2. CASE Level(tree, t) # FULL
    <3>1. goal = t
      BY <2>2
    <3> QED
      BY <1>1, <1>2, <2>2, <3>1 DEF Flaring, Level
  <2> QED
    BY <2>1, <2>2
<1> HIDE DEF next, t, u, v, w, goal
<1>8. /\ next.fader[goal] \in Faders /\ next.fader[goal].rate = TreeRate
      /\ Flaring(next.fader[goal])
      /\ Level(next, goal) <= Level(tree, goal) + 2 * s
      /\ Level(next, goal) \in 0 .. FULL
  <2> DEFINE f == tree.fader[goal]
             g == next.fader[goal]
  <2>1. f \in Faders /\ f.brightness < FULL /\ f.dir = "UP" /\ f.rate = TreeRate
    BY <1>2, <1>5, <1>7
  <2>2. g = IF Faded(Enabled(f)).brightness < FULL
            THEN Faded(Faded(Enabled(f))) ELSE Faded(Enabled(f))
    BY <1>3
  <2> HIDE DEF f, g
  <2>3. /\ g \in Faders /\ g.rate = f.rate /\ Flaring(g)
        /\ g.brightness <= f.brightness + 2 * BrightnessStep(f.rate)
    BY <2>1, <2>2, Flares
  <2>4. g.brightness \in 0 .. FULL
    BY <2>3 DEF Faders
  <2> QED
    BY <2>1, <2>3, <2>4 DEF f, g, Level
<1>9. ASSUME NEW k \in Spinners \ {goal}
      PROVE  next.fader[k].rate = TreeRate /\ Dimming(next.fader[k]) /\ Down(k)
  <2> DEFINE f == tree.fader[k]
             g == next.fader[k]
  <2>1. f \in Faders /\ f.rate = TreeRate
    BY <1>2, <1>5
  <2>2. Dimming(f)
    <3>1. CASE k # t
      BY <1>2, <3>1
    <3>2. CASE k = t
      <4>1. Level(tree, t) = FULL
        BY <3>2 DEF goal
      <4>2. f.brightness = FULL /\ f.dir = "DOWN"
        BY <1>2, <1>4, <3>2, <4>1 DEF Flaring, Level
      <4> QED
        BY <1>4, <4>2 DEF Dimming
    <3> QED
      BY <3>1, <3>2
  <2>3. g = Faded(IF f.brightness # 0 THEN Enabled(f) ELSE Frozen(f))
    BY <1>3 DEF Level
  <2> HIDE DEF f, g
  <2>4. /\ g.rate = f.rate /\ Dimming(g)
        /\ \/ g.brightness = 0
           \/ f.brightness # 0 /\ g.brightness = f.brightness - BrightnessStep(f.rate)
    BY <2>1, <2>2, <2>3, Dims
  <2> QED
    BY <2>1, <2>4 DEF f, g, Level
<1>10. \A k \in Spinners : next.fader[k].rate = TreeRate
  BY <1>8, <1>9
<1> HIDE DEF s
<1>11. CASE Level(tree, t) = FULL
  <2>1. goal = u
    BY <1>11 DEF goal
  <2>2. Down(v) /\ Down(w) /\ Down(t)
    BY <1>1, <1>9, <2>1
  <2>3. Spaced(Level(next, v), Level(next, w), Level(next, t), Level(next, u))
    <3> DEFINE a == Level(tree, u)
               b == Level(tree, v)
               c == Level(tree, w)
               d == Level(tree, t)
               aa == Level(next, u)
               bb == Level(next, v)
               cc == Level(next, w)
               dd == Level(next, t)
    <3>1. /\ a \in 0 .. FULL /\ b \in 0 .. FULL /\ c \in 0 .. FULL /\ d = FULL
          /\ Spaced(a, b, c, d) /\ aa \in 0 .. FULL /\ aa <= a + 2 * s
          /\ bb = 0 \/ (b # 0 /\ bb = b - s)
          /\ cc = 0 \/ (c # 0 /\ cc = c - s)
          /\ dd = 0 \/ (d # 0 /\ dd = d - s)
      BY <1>1, <1>2, <1>5, <1>8, <1>11, <2>1, <2>2
    <3> HIDE DEF a, b, c, d, aa, bb, cc, dd
    <3>2. Spaced(bb, cc, dd, aa)
      BY <1>4, <3>1, SpacedOn
    <3> QED
      BY <3>2 DEF aa, bb, cc, dd
  <2>4. next.target = u /\ Following(u) = v /\ Following(v) = w /\ Following(w) = t
    BY <1>1, <1>3, <2>1 DEF v, w
  <2>5. Flaring(next.fader[u]) /\ \A k \in Spinners \ {u} : Dimming(next.fader[k])
    BY <1>8, <1>9, <2>1
  <2>6. Turning(next)
    BY <1>3, <1>10, <2>3, <2>4, <2>5 DEF Turning
  <2> QED
    BY <2>6 DEF next
<1>12. CASE Level(tree, t) # FULL
  <2>1. goal = t
    BY <1>12 DEF goal
  <2>2. Down(u) /\ Down(v) /\ Down(w)
    BY <1>1, <1>9, <2>1
  <2>3. Spaced(Level(next, u), Level(next, v), Level(next, w), Level(next, t))
    <3> DEFINE a == Level(tree, u)
               b == Level(tree, v)
               c == Level(tree, w)
               d == Level(tree, t)
               aa == Level(next, u)
               bb == Level(next, v)
               cc == Level(next, w)
               dd == Level(next, t)
    <3>1. /\ a \in 0 .. FULL /\ b \in 0 .. FULL /\ c \in 0 .. FULL /\ d \in 0 .. FULL
          /\ Spaced(a, b, c, d) /\ dd \in 0 .. FULL /\ dd <= d + 2 * s
          /\ aa = 0 \/ (a # 0 /\ aa = a - s)
          /\ bb = 0 \/ (b # 0 /\ bb = b - s)
          /\ cc = 0 \/ (c # 0 /\ cc = c - s)
      BY <1>1, <1>2, <1>5, <1>8, <2>1, <2>2
    <3> HIDE DEF a, b, c, d, aa, bb, cc, dd
    <3>2. Spaced(aa, bb, cc, dd)
      BY <1>4, <3>1, SpacedKept
    <3> QED
      BY <3>2 DEF aa, bb, cc, dd
  <2>4. next.target = t /\ Following(t) = u /\ Following(u) = v /\ Following(v) = w
    BY <1>3, <2>1 DEF u, v, w
  <2>5. Flaring(next.fader[t]) /\ \A k \in Spinners \ {t} : Dimming(next.fader[k])
    BY <1>8, <1>9, <2>1
  <2>6. Turning(next)
    BY <1>3, <1>10, <2>3, <2>4, <2>5 DEF Turning
  <2> QED
    BY <2>6 DEF next
<1> QED
  BY <1>11, <1>12

TreesTurn ==
    \A k \in DOMAIN loaded : loaded[k].fp.id = "FSM_CHRISTMASTREE" => Turning(loaded[k].tree)

LEMMA NewIsATree ==
    ASSUME NEW fp \in Loadable, New(fp).fp.id = "FSM_CHRISTMASTREE"
    PROVE  New(fp).tree = NewTree
<1>1. fp.id = "FSM_CHRISTMASTREE"
  BY NewType
<1> QED
  BY <1>1 DEF New

LEMMA TreeTurns ==
    ASSUME NEW tree \in Trees, Turning(tree)
    PROVE  Turning(TreeStepped(tree)) /\ TakesItsTurn(tree, TreeStepped(tree))
<1>1. Turning(TreeStepped(tree))
  BY StartTurns, SpinTurns, TreeFields
<1>2. TakesItsTurn(tree, TreeStepped(tree))
  <2> DEFINE t == tree.target
             u == Following(t)
             next == TreeStepped(tree)
  <2> SUFFICES ASSUME tree.state = "Spinning", next.target # t
               PROVE  /\ next.target = u
                      /\ tree.fader[t].brightness = FULL
                      /\ tree.fader[next.target].brightness = 0
    BY DEF TakesItsTurn
  <2>1. next.target = IF Level(tree, t) = FULL THEN u ELSE t
    BY SpunFields
  <2>2. next.target = u /\ Level(tree, t) = FULL
    BY <2>1
  <2>3. Level(tree, u) = 0
    BY DEF Turning, Spaced
  <2> QED
    BY <2>2, <2>3 DEF Level
<1> QED
  BY <1>1, <1>2

\* While no FSM comes or goes, a tree makes a step or stays as it is.
LEMMA TreeStaysOrSteps ==
    ASSUME TypeOK, [Next]_session, Len(loaded') = Len(loaded),
           NEW k \in DOMAIN loaded, loaded[k].fp.id = "FSM_CHRISTMASTREE"
    PROVE  \/ loaded'[k] = loaded[k]
           \/ loaded'[k].tree = TreeStepped(loaded[k].tree)
<1>1. BoardTypeOK
  BY DEF TypeOK
<1>2. CASE UNCHANGED loaded
  BY <1>2
<1>3. CASE Console
  BY <1>2, <1>3
     DEF Console, CallCreate, CallDestroy, CallCommand, SetBridge, CallClear, Arrive,
         GiveUp, DestroyNext, board
<1>4. CASE SerialCallback
  <2> DEFINE m == Head(rx)
  <2>1. m \in Requests /\ Handle(m)
    BY <1>4, HeadType DEF SerialCallback, TypeOK
  <2>2. Len(loaded) \in Nat /\ DOMAIN loaded = 1 .. Len(loaded)
    BY <1>1, SeqShape DEF BoardTypeOK
  <2>3. CASE m.kind = "CREATE" /\ Create(m.fp)
    <3>1. m.fp \in Loadable
      BY <2>1, <2>3, RequestKinds
    <3>2. Len(loaded') = Len(loaded) + 1
      BY <1>1, <2>3, <3>1, CreateType
    <3> QED
      BY <2>2, <3>2
  <2>4. CASE m.kind = "DESTROY" /\ Destroy(m.fp)
    <3>1. ASSUME NEW j \in DOMAIN loaded, loaded' = Removed(j) PROVE FALSE
      <4>1. Len(loaded') = Len(loaded) - 1
        BY <1>1, <3>1, RemovedType DEF BoardTypeOK
      <4> QED
        BY <2>2, <4>1
    <3>2. UNCHANGED loaded
      BY <2>4, <3>1 DEF Destroy, FirstOf
    <3> QED
      BY <3>2
  <2>5. CASE m.kind = "COMMAND" /\ Command(m.msg)
    <3>1. CASE m.msg.id = "FSM_TOGGLE"
      BY <2>5, <3>1 DEF Command, CommandToggles, Is
    <3>2. CASE m.msg.id # "FSM_TOGGLE"
      BY <2>5, <3>2 DEF Command, CommandMotors, Is
    <3> QED
      BY <3>1, <3>2
  <2> QED
    BY <1>2, <2>1, <2>3, <2>4, <2>5 DEF Handle, board
<1>5. CASE Step
  <2>1. PICK j \in DOMAIN loaded :
           \/ StepFade(j) \/ StepTree(j) \/ StepBlink(j) \/ StepToggle(j)
           \/ StepBattery(j) \/ StepMimic(j) \/ TimeOut(j)
    BY <1>5 DEF Step, StepFsm
  <2>2. CASE j # k
    <3>1. CASE TimeOut(j)
      BY <2>2, <3>1 DEF TimeOut
    <3>2. CASE ~TimeOut(j)
      BY <1>1, <2>1, <2>2, <3>2, OneObjectChanges
    <3> QED
      BY <3>1, <3>2
  <2>3. CASE j = k
    <3>1. StepTree(k)
      BY <2>1, <2>3 DEF StepFade, StepBlink, StepToggle, StepBattery, StepMimic, TimeOut, Is
    <3>2. loaded[k] \in Objects
      BY <1>1 DEF BoardTypeOK
    <3>3. loaded[k] \in [fp : Loads({"FSM_CHRISTMASTREE"}), tree : Trees]
      BY <3>2, ObjectFields
    <3>4. loaded' = [loaded EXCEPT ![k] =
                        [loaded[k] EXCEPT !.tree = TreeStepped(loaded[k].tree)]]
      BY <3>1 DEF StepTree
    <3>5. loaded'[k] = [loaded[k] EXCEPT !.tree = TreeStepped(loaded[k].tree)]
      BY <1>1, <3>4 DEF BoardTypeOK
    <3> QED
      BY <3>3, <3>5
  <2> QED
    BY <2>2, <2>3
<1>6. CASE UNCHANGED session
  BY <1>2, <1>6 DEF session
<1> QED
  BY <1>3, <1>4, <1>5, <1>6 DEF Next

LEMMA InitTurns ==
    ASSUME NEW fps \in Seq(Loadable), Booted(fps)
    PROVE  TreesTurn
<1> SUFFICES ASSUME NEW k \in DOMAIN loaded, loaded[k].fp.id = "FSM_CHRISTMASTREE"
             PROVE  Turning(loaded[k].tree)
  BY DEF TreesTurn
<1>1. PICK fp \in Loadable : loaded[k] = New(fp)
  BY BootedAreNew
<1>2. loaded[k].tree = NewTree
  BY <1>1, NewIsATree
<1> QED
  BY <1>2, NewTreeTurns

LEMMA NextTurns ==
    ASSUME TypeOK, TreesTurn, [Next]_session
    PROVE  TreesTurn'
<1> SUFFICES ASSUME NEW i \in DOMAIN loaded', loaded'[i].fp.id = "FSM_CHRISTMASTREE"
             PROVE  Turning(loaded'[i].tree)
  BY DEF TreesTurn
<1>1. Descends(loaded'[i])
  BY NextDescends
<1>2. CASE \E k \in DOMAIN loaded : loaded'[i] = loaded[k]
  BY <1>2 DEF TreesTurn
<1>3. CASE \E fp \in Loadable : loaded'[i] = New(fp)
  BY <1>3, NewIsATree, NewTreeTurns
<1>4. ASSUME NEW k \in DOMAIN loaded, loaded[k].fp.id = "FSM_CHRISTMASTREE",
             loaded'[i].tree = TreeStepped(loaded[k].tree)
      PROVE  Turning(loaded'[i].tree)
  <2>1. loaded[k] \in Objects
    BY DEF TypeOK, BoardTypeOK
  <2>2. loaded[k].tree \in Trees
    BY <1>4, <2>1, ObjectFields
  <2> QED
    BY <1>4, <2>2, TreeTurns DEF TreesTurn
<1> QED
  BY <1>1, <1>2, <1>3, <1>4 DEF Descends

\* What SpinnersTakeTurns says of a step.
TurnsTaken ==
    Len(loaded') = Len(loaded) =>
        \A k \in DOMAIN loaded :
            Is(k, "FSM_CHRISTMASTREE") => TakesItsTurn(loaded[k].tree, loaded'[k].tree)

LEMMA NextTakesTurns ==
    ASSUME TypeOK, TreesTurn, [Next]_session
    PROVE  TurnsTaken
<1> SUFFICES ASSUME Len(loaded') = Len(loaded),
                    NEW k \in DOMAIN loaded, Is(k, "FSM_CHRISTMASTREE")
             PROVE  TakesItsTurn(loaded[k].tree, loaded'[k].tree)
  BY DEF TurnsTaken
<1>1. loaded[k].fp.id = "FSM_CHRISTMASTREE"
  BY DEF Is
<1>2. loaded[k].tree \in Trees
  <2>1. loaded[k] \in Objects
    BY DEF TypeOK, BoardTypeOK
  <2> QED
    BY <1>1, <2>1, ObjectFields
<1>3. CASE loaded'[k] = loaded[k]
  BY <1>3 DEF TakesItsTurn
<1>4. CASE loaded'[k].tree = TreeStepped(loaded[k].tree)
  BY <1>1, <1>2, <1>4, TreeTurns DEF TreesTurn
<1> QED
  BY <1>1, <1>3, <1>4, TreeStaysOrSteps

\* In every tree that spins the next light is dark when its turn comes, though a
\* light takes two steps up for one down (ChristmasTree.cpp:127).
THEOREM TurnsAreTaken == Spec => SpinnersTakeTurns
<1>1. Init => TreesTurn
  BY SessionAssumption, InitTurns DEF Init
<1>2. TypeOK /\ TreesTurn /\ [Next]_session => TreesTurn'
  BY NextTurns
<1>3. TypeOK /\ TreesTurn /\ [Next]_session => [TurnsTaken]_session
  BY NextTakesTurns
<1>4. Spec => [][TurnsTaken]_session
  BY <1>1, <1>2, <1>3, SessionTypes, PTL DEF Spec
<1> QED
  BY <1>4 DEF TurnsTaken, SpinnersTakeTurns

(***************************************************************************)
(* The board with either program                                           *)
(***************************************************************************)

\* What holds of the board and its host holds of the monitor's session too: its
\* messages create and destroy a Sentry, and the host of HostSession does nothing
\* meanwhile.
BoardInv ==
    TypeOK /\ LitIsOwned /\ TreesAreQuiet /\ ClearInv /\ FadesAreOnCourse /\ TreesTurn

HostIsIdle == program = "monitor" => pc = "idle" /\ ~current

Uploads ==
    /\ pc = "idle" /\ ~current
    /\ bridge' \in BOOLEAN \cup {bridge}
    /\ UNCHANGED <<loaded, lit, driving, enable, host, line>>
    /\ UNCHANGED rx \/ \E m \in Requests : m.kind # "LIST" /\ Send(m)

LEMMA MonitorMoves ==
    ASSUME HostIsIdle, [MonitorNext]_vars
    PROVE  ([Next]_session \/ Uploads) /\ HostIsIdle'
<1>1. CASE UNCHANGED vars
  BY <1>1 DEF vars, monitor, session, HostIsIdle
<1>2. CASE BoardSteps
  BY <1>2 DEF BoardSteps, SerialCallback, Step, Next, monitor, host, HostIsIdle
<1>3. CASE program = "console" /\ Console /\ UNCHANGED <<monitor, sentry>>
  BY <1>3 DEF Next, monitor, HostIsIdle
<1>4. CASE program = "monitor" /\ (CallReceive \/ Silence \/ DestroyDiscarded \/ Return \/ Tick)
  <2>1. UNCHANGED <<session, program>>
    BY <1>4 DEF CallReceive, Silence, DestroyDiscarded, Return, Tick
  <2> QED
    BY <2>1 DEF session, HostIsIdle
<1>5. CASE program = "monitor" /\ (Connect \/ Upload \/ Finish \/ DestroyWritten)
  <2>1. pc = "idle" /\ ~current
    BY <1>5 DEF HostIsIdle
  <2>2. /\ bridge' \in BOOLEAN \cup {bridge}
        /\ UNCHANGED <<loaded, lit, driving, enable, host, line, program>>
    BY <1>5 DEF Connect, Upload, Finish, DestroyWritten
  <2>3. SentryFp \in Loadable
    BY MonitorAssumption DEF SentryFp
  <2>4. ASSUME NEW kind \in {"CREATE", "DESTROY"}
        PROVE  [kind |-> kind, fp |-> SentryFp] \in Requests
    BY <2>3 DEF Requests
  <2>5. UNCHANGED rx \/ \E m \in Requests : m.kind # "LIST" /\ Send(m)
    BY <1>5, <2>4 DEF Connect, Upload, Finish, DestroyWritten
  <2> QED
    BY <2>1, <2>2, <2>5 DEF Uploads, host, HostIsIdle
<1> QED
  BY <1>1, <1>2, <1>3, <1>4, <1>5 DEF MonitorNext, Monitor

LEMMA UploadsKeepBoard ==
    ASSUME BoardInv, Uploads
    PROVE  BoardInv'
<1>1. /\ UNCHANGED <<loaded, lit, driving, enable, pc, fsmv, line, sends, queries, current>>
      /\ pc = "idle" /\ ~current /\ bridge' \in BOOLEAN
  <2>1. bridge' \in BOOLEAN \cup {bridge} /\ {driving, enable, bridge} \subseteq BOOLEAN
    BY DEF Uploads, BoardInv, TypeOK, BoardTypeOK
  <2>2. bridge' \in BOOLEAN
    BY <2>1
  <2> QED
    BY <2>2 DEF Uploads, host
<1>2. rx \in Seq(Requests) /\ TypeOK /\ ClearInv
  BY DEF BoardInv, TypeOK
<1>3. rx' \in Seq(Requests) /\ ListsAreAsked'
  <2>1. CASE UNCHANGED rx
    BY <1>1, <1>2, <2>1 DEF ClearInv, ListsAreAsked
  <2>2. ASSUME NEW m \in Requests, m.kind # "LIST", Send(m)
        PROVE  rx' \in Seq(Requests) /\ ListsAreAsked'
    BY <1>1, <1>2, <2>2, SendType, SendKeepsLists
  <2> QED
    BY <2>1, <2>2 DEF Uploads
<1>4. TypeOK'
  BY <1>1, <1>2, <1>3 DEF TypeOK, BoardTypeOK
<1>5. ClearInv'
  BY <1>1, <1>2, <1>3 DEF ClearInv, AnswerIsFresh, AllDoomed
<1>6. LitIsOwned' /\ TreesAreQuiet' /\ FadesAreOnCourse' /\ TreesTurn'
  BY <1>1 DEF BoardInv, LitIsOwned, TreesAreQuiet, FadesAreOnCourse, TreesTurn
<1> QED
  BY <1>4, <1>5, <1>6 DEF BoardInv

LEMMA UploadsMoveNothing ==
    ASSUME Uploads
    PROVE  /\ Watched' = Watched
           /\ lit' = lit
           /\ TurnsTaken
<1>1. UNCHANGED <<loaded, lit, driving>>
  BY DEF Uploads
<1> QED
  BY <1>1 DEF Watched, Is, TurnsTaken, TakesItsTurn

LEMMA NextKeepsBoard ==
    ASSUME BoardInv, [Next]_session
    PROVE  BoardInv'
BY NextType, NextOwned, NextQuiet, NextKeepsClear, NextFades, NextTurns DEF BoardInv

LEMMA InitBoard ==
    ASSUME NEW fps \in Seq(Loadable), Booted(fps)
    PROVE  BoardInv
<1>1. LitIsOwned
  BY DEF Booted, LitIsOwned
<1> QED
  BY <1>1, InitType, InitQuiet, InitClear, InitFades, InitTurns DEF BoardInv

LEMMA MonitorKeepsBoard == MonitorSpec => [](BoardInv /\ HostIsIdle)
<1>1. MonitorInit => BoardInv /\ HostIsIdle
  <2> SUFFICES ASSUME MonitorInit PROVE BoardInv /\ HostIsIdle
    OBVIOUS
  <2>1. PICK fps \in Seq(Loadable) : Booted(fps)
    BY SessionAssumption, MonitorAssumption DEF MonitorInit
  <2>2. pc = "idle" /\ ~current
    BY <2>1 DEF Booted
  <2> QED
    BY <2>1, <2>2, InitBoard DEF HostIsIdle
<1>2. BoardInv /\ HostIsIdle /\ [MonitorNext]_vars => (BoardInv /\ HostIsIdle)'
  BY MonitorMoves, NextKeepsBoard, UploadsKeepBoard
<1> QED
  BY <1>1, <1>2, PTL DEF MonitorSpec

\* Whichever program has the line and whatever others have left loaded: lit LEDs
\* have an owner, ClearFSMs() clears, and fades have their length.
THEOREM BoardIsKept ==
    MonitorSpec => [](LitIsOwned /\ ClearLeavesNothing /\ FadesWholeCycles)
<1>1. BoardInv => LitIsOwned /\ ClearLeavesNothing /\ FadesWholeCycles
  BY NothingIsLeft, CoursesAreWhole DEF BoardInv
<1> QED
  BY <1>1, MonitorKeepsBoard, PTL

\* Nor do the monitor's steps stop the motors' timeout, touch the emergency light
\* or disturb the turns of a tree.
THEOREM BoardMovesAsBefore ==
    MonitorSpec =>
        WatchdogLostOnlyByDestroy /\ TreeLeavesEmergencyAlone /\ SpinnersTakeTurns
<1> DEFINE Alone == \A k \in DOMAIN loaded : ~StepTree(k)
<1>1. ASSUME BoardInv, HostIsIdle, [MonitorNext]_vars
      PROVE  /\ Watched /\ ~Watched' => WatchLost
             /\ lit'["LED_EMERGENCY"] # lit["LED_EMERGENCY"] => Alone
             /\ TurnsTaken
  <2>1. TypeOK /\ TreesAreQuiet /\ TreesTurn
    BY <1>1 DEF BoardInv
  <2>2. CASE [Next]_session
    BY <2>1, <2>2, NextWatched, EmergencyStays, NextTakesTurns
  <2>3. CASE Uploads
    BY <2>3, UploadsMoveNothing
  <2> QED
    BY <1>1, <2>2, <2>3, MonitorMoves
<1>2. BoardInv /\ HostIsIdle /\ [MonitorNext]_vars =>
          /\ [Watched /\ ~Watched' => WatchLost]_session
          /\ [lit'["LED_EMERGENCY"] # lit["LED_EMERGENCY"] => Alone]_session
          /\ [TurnsTaken]_session
  BY <1>1
<1> HIDE DEF Alone
<1>3. MonitorSpec =>
          /\ [][Watched /\ ~Watched' => WatchLost]_session
          /\ [][lit'["LED_EMERGENCY"] # lit["LED_EMERGENCY"] => Alone]_session
          /\ [][TurnsTaken]_session
  BY <1>2, MonitorKeepsBoard, PTL DEF MonitorSpec
<1> QED
  BY <1>3
     DEF Alone, WatchLost, TurnsTaken, WatchdogLostOnlyByDestroy, TreeLeavesEmergencyAlone,
         SpinnersTakeTurns

(***************************************************************************)
(* The monitor's files                                                     *)
(***************************************************************************)

\* Receive() gives up at least once while the servo gets back, and not so often
\* that the program ends: 128 ms, 1000 ms and 5000 / 128 of SentryMonitor.cpp.
TimesFit == RECEIVE <= PAUSE /\ PAUSE < (PATIENCE + 1) * RECEIVE

Batches == Nat \X Nat

MonitorTypes ==
    /\ timeout \in Nat
    /\ samples \in Seq(Batches)
    /\ files \in Seq(Seq(Batches))
    /\ sentry \in Sentries

\* How long the program has waited since the last batch, between two ticks.
Waited == timeout * RECEIVE + (IF at = "loop" THEN 0 ELSE RECEIVE - wait)
Waiting ==
    \/ at = "loop"
    \/ at = "receive" /\ wait \in 1 .. RECEIVE
    \/ at = "silence" /\ wait = 0

\* All of a sweep, with or without what its last message holds.
AllOf(s) == {SweepOf(s, BATCHES), SweepOf(s, BATCHES + 1)}

\* The first s sweeps have come in; the last of them may have to be written yet.
AllIn(s) ==
    \/ samples = <<>> /\ Len(files) = s
    \/ s > 0 /\ timeout = 0 /\ samples \in AllOf(s) /\ Len(files) = s - 1

FilesWhole == \A j \in 1 .. Len(files) : files[j] \in {<<>>} \cup AllOf(j)

\* The stages of the program and its Sentry, from the start to the end.
NothingYet == timeout = 0 /\ samples = <<>> /\ files = <<>>
Unloaded == at \in {"start", "connected"} /\ rx = <<>> /\ sentry = Idle /\ NothingYet
JustWaiting == at = "loop" \/ (at = "receive" /\ wait = RECEIVE)
Uploaded ==
    /\ JustWaiting /\ sentry = Idle /\ NothingYet
    /\ rx = <<[kind |-> "CREATE", fp |-> SentryFp]>>
Resting ==
    /\ Waiting /\ rx = <<>>
    /\ sentry.phase = "resting" /\ sentry.sweep \in {0, 1} /\ sentry.rest \in 1 .. PAUSE
    /\ Waited = PAUSE - sentry.rest
    /\ AllIn(sentry.sweep)
Starting ==
    /\ Waiting /\ rx = <<>>
    /\ sentry.phase = "sweeping" /\ sentry.sweep \in {1, 2} /\ sentry.rest = BATCHES
    /\ Waited = PAUSE
    /\ AllIn(sentry.sweep - 1)
Sweeping ==
    /\ JustWaiting /\ rx = <<>>
    /\ sentry.phase = "sweeping" /\ sentry.sweep \in {1, 2}
    /\ sentry.rest \in 0 .. BATCHES - 1
    /\ timeout = 0
    /\ samples = SweepOf(sentry.sweep, BATCHES - sentry.rest)
    /\ Len(files) = sentry.sweep - 1
Swept == Waiting /\ rx = <<>> /\ sentry = Idle /\ AllIn(2)
Over ==
    /\ at \in Ended /\ sentry = Idle /\ Len(files) = 2
    /\ rx \in {<<>>, <<[kind |-> "DESTROY", fp |-> SentryFp]>>}
    /\ at = "closing" => rx = <<>>

Stages == Unloaded \/ Uploaded \/ Resting \/ Starting \/ Sweeping \/ Swept \/ Over

InOrder == MonitorTypes /\ Stages /\ FilesWhole

MonitorInv ==
    /\ program \in {"console", "monitor"}
    /\ program = "console" => at = "start" /\ files = <<>>
    /\ program = "monitor" => InOrder

LEMMA MonitorConstants ==
    /\ BATCHES \in Nat \ {0} /\ PAUSE \in Nat \ {0} /\ RECEIVE \in Nat \ {0}
    /\ PATIENCE \in Nat \ {0}
BY MonitorAssumption

\* How long it has waited says how often it has given up.
LEMMA WaitedBounds ==
    ASSUME TimesFit, MonitorTypes, Waiting
    PROVE  /\ Waited \in Nat /\ Waited >= timeout * RECEIVE
           /\ Waited <= PAUSE => timeout <= PATIENCE
           /\ timeout = 0 /\ Waited >= PAUSE => at = "silence"
<1> DEFINE given == timeout * RECEIVE
           now == IF at = "loop" THEN 0 ELSE RECEIVE - wait
<1>1. timeout \in Nat /\ RECEIVE \in Nat \ {0} /\ PATIENCE \in Nat \ {0} /\ PAUSE \in Nat \ {0}
  BY MonitorConstants DEF MonitorTypes
<1>2. now \in 0 .. RECEIVE
  BY <1>1 DEF Waiting
<1>3. now = RECEIVE => at = "silence"
  BY <1>1 DEF Waiting
<1>4. given \in Nat /\ (timeout = 0 => given = 0)
  BY <1>1
<1>5. timeout > PATIENCE => given >= (PATIENCE + 1) * RECEIVE
  <2> SUFFICES ASSUME timeout > PATIENCE PROVE given >= (PATIENCE + 1) * RECEIVE
    OBVIOUS
  <2> DEFINE more == timeout - (PATIENCE + 1)
  <2>1. more \in Nat /\ timeout = more + (PATIENCE + 1)
    BY <1>1
  <2>2. given = more * RECEIVE + (PATIENCE + 1) * RECEIVE /\ more * RECEIVE \in Nat
    BY <1>1, <2>1
  <2>3. (PATIENCE + 1) * RECEIVE \in Nat
    BY <1>1
  <2> HIDE DEF given, more
  <2> QED
    BY <2>2, <2>3
<1>6. Waited = given + now
  BY DEF Waited
<1> DEFINE limit == (PATIENCE + 1) * RECEIVE
<1>7. limit \in Nat /\ PAUSE < limit /\ RECEIVE <= PAUSE
  BY <1>1 DEF TimesFit
<1>8. timeout > PATIENCE => given >= limit
  BY <1>5
<1> HIDE DEF given, now, limit
<1>9. Waited \in Nat /\ Waited >= given
  BY <1>1, <1>2, <1>4, <1>6
<1>10. Waited <= PAUSE => timeout <= PATIENCE
  BY <1>1, <1>4, <1>7, <1>8, <1>9
<1>11. timeout = 0 /\ Waited >= PAUSE => at = "silence"
  BY <1>1, <1>2, <1>3, <1>4, <1>6, <1>7
<1> QED
  BY <1>9, <1>10, <1>11 DEF given

\* A sweep is a sequence of batches, to which the next is appended.
LEMMA SweepIsASequence ==
    ASSUME NEW s \in Nat, NEW n \in Nat
    PROVE  /\ SweepOf(s, n) \in Seq(Batches) /\ Len(SweepOf(s, n)) = n
           /\ Append(SweepOf(s, n), <<s, n + 1>>) = SweepOf(s, n + 1)
           /\ SweepOf(s, 0) = <<>>
<1>1. SweepOf(s, n) \in [1 .. n -> Batches]
  BY DEF SweepOf, Batches
<1>2. SweepOf(s, n) \in Seq(Batches) /\ Len(SweepOf(s, n)) = n
  BY <1>1
<1>3. SweepOf(s, n + 1) \in Seq(Batches) /\ Len(SweepOf(s, n + 1)) = n + 1
  <2>1. SweepOf(s, n + 1) \in [1 .. n + 1 -> Batches]
    BY DEF SweepOf, Batches
  <2> QED
    BY <2>1
<1> DEFINE longer == Append(SweepOf(s, n), <<s, n + 1>>)
<1>4. <<s, n + 1>> \in Batches
  BY DEF Batches
<1>5. longer \in Seq(Batches) /\ Len(longer) = n + 1
  BY <1>2, <1>4
<1>6. ASSUME NEW k \in 1 .. n + 1 PROVE longer[k] = SweepOf(s, n + 1)[k]
  <2>1. SweepOf(s, n + 1)[k] = <<s, k>>
    BY DEF SweepOf
  <2>2. CASE k \in 1 .. n
    <3>1. longer[k] = SweepOf(s, n)[k]
      BY <1>2, <1>4, <2>2
    <3>2. SweepOf(s, n)[k] = <<s, k>>
      BY <2>2 DEF SweepOf
    <3> QED
      BY <2>1, <3>1, <3>2
  <2>3. CASE k = n + 1
    <3>1. longer[k] = <<s, n + 1>>
      BY <1>2, <1>4, <2>3
    <3> QED
      BY <2>1, <2>3, <3>1
  <2>4. k \in 1 .. n \/ k = n + 1
    OBVIOUS
  <2> QED
    BY <2>2, <2>3, <2>4
<1> HIDE DEF longer
<1>7. longer = SweepOf(s, n + 1)
  BY <1>3, <1>5, <1>6
<1>8. SweepOf(s, 0) = <<>>
  <2>1. SweepOf(s, 0) \in [1 .. 0 -> Batches]
    BY DEF SweepOf, Batches
  <2>2. SweepOf(s, 0) \in Seq(Batches) /\ Len(SweepOf(s, 0)) = 0
    BY <2>1
  <2> QED
    BY <2>2
<1> QED
  BY <1>2, <1>7, <1>8 DEF longer

\* A loop that waits again, and has given up not too often to do so.
LEMMA CallReceiveInOrder ==
    ASSUME InOrder, CallReceive
    PROVE  InOrder'
<1>1. /\ at = "loop" /\ at' = "receive" /\ wait' = RECEIVE
      /\ UNCHANGED <<rx, sentry, timeout, samples, files>>
  BY DEF CallReceive, session
<1>2. MonitorTypes' /\ FilesWhole'
  BY <1>1 DEF InOrder, MonitorTypes, FilesWhole
<1>3. RECEIVE \in Nat \ {0} /\ timeout * RECEIVE \in Nat
  BY MonitorConstants DEF InOrder, MonitorTypes
<1>4. Waiting' /\ Waited' = Waited
  BY <1>1, <1>3 DEF Waiting, Waited
<1>5. (AllIn(0) => AllIn(0)') /\ (AllIn(1) => AllIn(1)') /\ (AllIn(2) => AllIn(2)')
  BY <1>1 DEF AllIn
<1>6. CASE Uploaded
  BY <1>1, <1>2, <1>6 DEF Uploaded, JustWaiting, NothingYet, InOrder, Stages
<1>7. CASE Resting
  <2>1. Resting'
    BY <1>1, <1>4, <1>5, <1>7 DEF Resting
  <2> QED
    BY <1>2, <2>1 DEF InOrder, Stages
<1>8. CASE Starting
  <2>1. sentry.sweep - 1 \in {0, 1}
    BY <1>8 DEF Starting
  <2>2. Starting'
    BY <1>1, <1>4, <1>5, <1>8, <2>1 DEF Starting
  <2> QED
    BY <1>2, <2>2 DEF InOrder, Stages
<1>9. CASE Sweeping
  BY <1>1, <1>2, <1>9 DEF Sweeping, JustWaiting, InOrder, Stages
<1>10. CASE Swept
  BY <1>1, <1>2, <1>4, <1>5, <1>10 DEF Swept, InOrder, Stages
<1> QED
  BY <1>1, <1>6, <1>7, <1>8, <1>9, <1>10 DEF InOrder, Stages, Unloaded, Over, Ended

\* What has been gathered becomes the file of its sweep.
LEMMA SilenceFiles ==
    ASSUME InOrder, Silence, NEW s \in {0, 1, 2}, AllIn(s)
    PROVE  MonitorTypes' /\ FilesWhole' /\ AllIn(s)'
<1>1. /\ timeout \in Nat /\ samples \in Seq(Batches) /\ files \in Seq(Seq(Batches))
      /\ sentry \in Sentries
  BY DEF InOrder, MonitorTypes
<1>2. samples' = <<>> /\ timeout' = timeout + 1 /\ UNCHANGED sentry
  BY DEF Silence
<1>3. CASE samples = <<>>
  <2>1. UNCHANGED files
    BY <1>3 DEF Silence
  <2>2. Len(files) = s
    <3>1. s > 0 => samples \notin AllOf(s)
      <4>1. BATCHES \in Nat /\ BATCHES + 1 \in Nat /\ BATCHES # 0 /\ BATCHES + 1 # 0
        BY MonitorConstants
      <4>2. Len(SweepOf(s, BATCHES)) = BATCHES /\ Len(SweepOf(s, BATCHES + 1)) = BATCHES + 1
        <5>1. s \in Nat
          OBVIOUS
        <5> QED
          BY <4>1, <5>1, SweepIsASequence
      <4>3. Len(samples) = 0
        BY <1>3
      <4> QED
        BY <4>1, <4>2, <4>3 DEF AllOf
    <3> QED
      BY <3>1 DEF AllIn
  <2>3. samples' \in Seq(Batches) /\ timeout' \in Nat
    BY <1>1, <1>2, <1>3
  <2>4. MonitorTypes'
    BY <1>1, <1>2, <2>1, <2>3 DEF MonitorTypes
  <2> QED
    BY <1>2, <2>1, <2>2, <2>4 DEF InOrder, FilesWhole, AllIn
<1>4. CASE samples # <<>>
  <2>1. s > 0 /\ timeout = 0 /\ samples \in AllOf(s) /\ Len(files) = s - 1
    BY <1>4 DEF AllIn
  <2>2. PICK written \in {samples, <<>>} : files' = Append(files, written)
    BY <1>4 DEF Silence, Process
  <2>3. written \in Seq(Batches)
    <3>1. <<>> \in Seq(Batches)
      OBVIOUS
    <3> QED
      BY <1>1, <3>1
  <2>4. /\ files' \in Seq(Seq(Batches)) /\ Len(files') = Len(files) + 1
        /\ files'[Len(files) + 1] = written
        /\ \A j \in 1 .. Len(files) : files'[j] = files[j]
    BY <1>1, <2>2, <2>3
  <2>5. Len(files) \in Nat /\ Len(files) + 1 = s
    BY <1>1, <2>1
  <2>6. samples' \in Seq(Batches) /\ timeout' \in Nat
    BY <1>1, <1>2
  <2>7. MonitorTypes'
    BY <1>1, <1>2, <2>4, <2>6 DEF MonitorTypes
  <2>8. FilesWhole'
    <3> SUFFICES ASSUME NEW j \in 1 .. Len(files')
                 PROVE  files'[j] \in {<<>>} \cup AllOf(j)
      BY DEF FilesWhole
    <3>1. CASE j \in 1 .. Len(files)
      BY <2>4, <3>1 DEF InOrder, FilesWhole
    <3>2. CASE j = s
      BY <2>1, <2>4, <2>5, <3>2
    <3>3. j \in 1 .. Len(files) \/ j = s
      BY <2>4, <2>5
    <3> QED
      BY <3>1, <3>2, <3>3
  <2>9. Len(files') = s
    BY <2>4, <2>5
  <2> QED
    BY <1>2, <2>7, <2>8, <2>9 DEF AllIn
<1> QED
  BY <1>3, <1>4

\* Silence is a timeout more and as long a wait as before.
LEMMA SilenceInOrder ==
    ASSUME InOrder, Silence
    PROVE  InOrder'
<1>1. /\ at = "silence" /\ at' = "loop" /\ timeout' = timeout + 1
      /\ UNCHANGED <<rx, sentry, wait>>
  BY DEF Silence, session
<1>2. RECEIVE \in Nat \ {0} /\ timeout \in Nat
  BY MonitorConstants DEF InOrder, MonitorTypes
<1>3. ASSUME Waiting PROVE Waiting' /\ Waited' = Waited
  <2>1. wait = 0
    BY <1>1, <1>3 DEF Waiting
  <2>2. (timeout + 1) * RECEIVE = timeout * RECEIVE + RECEIVE /\ timeout * RECEIVE \in Nat
    BY <1>2
  <2>3. Waited = timeout * RECEIVE + RECEIVE /\ Waited' = (timeout + 1) * RECEIVE
    <3>1. Waited = timeout * RECEIVE + (RECEIVE - wait)
      BY <1>1 DEF Waited
    <3>2. Waited' = (timeout + 1) * RECEIVE + 0
      BY <1>1 DEF Waited
    <3>3. (timeout + 1) * RECEIVE \in Nat
      BY <1>2
    <3>4. RECEIVE - wait = RECEIVE
      BY <1>2, <2>1
    <3> QED
      BY <3>1, <3>2, <3>3, <3>4
  <2> QED
    BY <1>1, <2>2, <2>3 DEF Waiting
<1>4. CASE Resting
  <2>1. PICK s \in {0, 1, 2} : s = sentry.sweep
    BY <1>4 DEF Resting
  <2>2. Waiting /\ AllIn(s)
    BY <1>4, <2>1 DEF Resting
  <2>3. MonitorTypes' /\ FilesWhole' /\ AllIn(s)'
    BY <2>2, SilenceFiles
  <2>4. Resting'
    BY <1>1, <1>3, <1>4, <2>1, <2>2, <2>3 DEF Resting
  <2> QED
    BY <2>3, <2>4 DEF InOrder, Stages
<1>5. CASE Starting
  <2>1. PICK s \in {0, 1, 2} : s = sentry.sweep - 1
    BY <1>5 DEF Starting
  <2>2. Waiting /\ AllIn(s)
    BY <1>5, <2>1 DEF Starting
  <2>3. MonitorTypes' /\ FilesWhole' /\ AllIn(s)'
    BY <2>2, SilenceFiles
  <2>4. Starting'
    BY <1>1, <1>3, <1>5, <2>1, <2>2, <2>3 DEF Starting
  <2> QED
    BY <2>3, <2>4 DEF InOrder, Stages
<1>6. CASE Swept
  <2>1. Waiting /\ AllIn(2)
    BY <1>6 DEF Swept
  <2>2. MonitorTypes' /\ FilesWhole' /\ AllIn(2)'
    BY <2>1, SilenceFiles
  <2>3. Swept'
    BY <1>1, <1>3, <1>6, <2>1, <2>2 DEF Swept
  <2> QED
    BY <2>2, <2>3 DEF InOrder, Stages
<1> QED
  BY <1>1, <1>4, <1>5, <1>6
     DEF InOrder, Stages, Unloaded, Uploaded, JustWaiting, Sweeping, Over, Ended

\* The pins and the messages at both ends of the program.
LEMMA ConnectInOrder ==
    ASSUME InOrder, Connect \/ Upload
    PROVE  InOrder'
<1>1. at \in {"start", "connected"} /\ at' \in {"connected", "loop"}
      /\ UNCHANGED <<sentry, wait, timeout, samples, files>>
  BY DEF Connect, Upload
<1>2. Unloaded
  BY <1>1 DEF InOrder, Stages, Unloaded, Uploaded, JustWaiting, Resting, Starting, Waiting,
              Sweeping, Swept, Over, Ended
<1>3. MonitorTypes' /\ FilesWhole'
  BY <1>1 DEF InOrder, MonitorTypes, FilesWhole
<1>4. CASE Connect
  BY <1>2, <1>3, <1>4 DEF Connect, InOrder, Stages, Unloaded, NothingYet
<1>5. CASE Upload
  <2>1. rx' = Append(<<>>, [kind |-> "CREATE", fp |-> SentryFp])
    BY <1>2, <1>5 DEF Upload, Send, Unloaded
  <2>2. rx' = <<[kind |-> "CREATE", fp |-> SentryFp]>>
    BY <2>1
  <2>3. Uploaded'
    BY <1>2, <1>5, <2>2 DEF Upload, Unloaded, Uploaded, JustWaiting, NothingYet
  <2> QED
    BY <1>3, <2>3 DEF InOrder, Stages
<1> QED
  BY <1>4, <1>5

\* The program ends only behind the second sweep, and when it has been written.
LEMMA FinishInOrder ==
    ASSUME TimesFit, InOrder, Finish
    PROVE  InOrder'
<1>1. /\ at = "loop" /\ at' = "closing" /\ timeout > PATIENCE
      /\ UNCHANGED <<rx, sentry, wait, timeout, samples, files>>
  BY DEF Finish
<1>2. timeout \in Nat /\ PATIENCE \in Nat \ {0} /\ timeout # 0
  BY <1>1, MonitorConstants DEF InOrder, MonitorTypes
<1>3. Waiting /\ Waited > PAUSE
  <2>1. Waiting
    BY <1>1 DEF Waiting
  <2>2. Waited \in Nat /\ ~(Waited <= PAUSE) /\ PAUSE \in Nat
    BY <1>1, <1>2, <2>1, WaitedBounds, MonitorConstants DEF InOrder
  <2> QED
    BY <2>1, <2>2
<1>4. PAUSE \in Nat
  BY MonitorConstants
<1>5. ~Resting /\ ~Starting
  <2>1. Waited = PAUSE - sentry.rest /\ sentry.rest \in 1 .. PAUSE => ~(Waited > PAUSE)
    BY <1>4
  <2>2. Waited = PAUSE => ~(Waited > PAUSE)
    BY <1>4
  <2> QED
    BY <1>3, <2>1, <2>2 DEF Resting, Starting
<1>6. Swept
  BY <1>1, <1>2, <1>5
     DEF InOrder, Stages, Unloaded, Uploaded, NothingYet, Sweeping, Over, Ended
<1>7. Len(files) = 2
  BY <1>2, <1>6 DEF Swept, AllIn
<1>8. MonitorTypes' /\ FilesWhole'
  BY <1>1 DEF InOrder, MonitorTypes, FilesWhole
<1>9. Over'
  BY <1>1, <1>6, <1>7 DEF Swept, Over, Ended
<1> QED
  BY <1>8, <1>9 DEF InOrder, Stages

\* Closing the link sends what Finish has queued, or does not.
LEMMA CloseInOrder ==
    ASSUME InOrder, DestroyWritten \/ DestroyDiscarded
    PROVE  InOrder'
<1>1. /\ at = "closing" /\ at' \in {"done", "discarded"}
      /\ UNCHANGED <<sentry, wait, timeout, samples, files>>
  BY DEF DestroyWritten, DestroyDiscarded
<1>2. Over /\ rx = <<>>
  BY <1>1 DEF InOrder, Stages, Unloaded, Uploaded, JustWaiting, Resting, Starting, Waiting,
              Sweeping, Swept, Over, Ended
<1>3. rx' \in {<<>>, <<[kind |-> "DESTROY", fp |-> SentryFp]>>}
  <2>1. CASE DestroyWritten
    <3>1. rx' = Append(<<>>, [kind |-> "DESTROY", fp |-> SentryFp])
      BY <1>2, <2>1 DEF DestroyWritten, Send
    <3> QED
      BY <3>1
  <2>2. CASE DestroyDiscarded
    BY <1>2, <2>2 DEF DestroyDiscarded, session
  <2> QED
    BY <2>1, <2>2
<1>4. MonitorTypes' /\ FilesWhole'
  BY <1>1 DEF InOrder, MonitorTypes, FilesWhole
<1>5. Over'
  BY <1>1, <1>2, <1>3 DEF Over, Ended
<1> QED
  BY <1>4, <1>5 DEF InOrder, Stages

\* A batch is the next of its sweep or nobody waited for it, which only the last
\* message of a sweep can do without harm.
LEMMA PublishedNext ==
    ASSUME MonitorTypes, NEW s \in Nat, NEW n \in Nat,
           JustWaiting, timeout = 0, samples = SweepOf(s, n),
           Published(<<s, n + 1>>)
    PROVE  /\ samples' \in Seq(Batches) /\ timeout' = 0
           /\ samples' \in {SweepOf(s, n), SweepOf(s, n + 1)}
           /\ at' = "loop" \/ (at' = at /\ at = "loop")
           /\ at = "receive" => samples' = SweepOf(s, n + 1)
<1>1. /\ SweepOf(s, n) \in Seq(Batches)
      /\ Append(SweepOf(s, n), <<s, n + 1>>) = SweepOf(s, n + 1)
  BY SweepIsASequence
<1>2. SweepOf(s, n + 1) \in Seq(Batches)
  <2>1. n + 1 \in Nat
    OBVIOUS
  <2> QED
    BY <2>1, SweepIsASequence
<1>3. CASE at = "receive"
  BY <1>1, <1>2, <1>3 DEF Published
<1>4. CASE at # "receive"
  BY <1>1, <1>4 DEF Published, JustWaiting
<1> QED
  BY <1>3, <1>4

\* The sweep ends: its last message comes or not, and the servo goes back.
LEMMA ReturnInOrder ==
    ASSUME InOrder, Return
    PROVE  InOrder'
<1>1. /\ sentry.phase = "sweeping" /\ sentry.rest = 0
      /\ sentry' = IF sentry.sweep = 2 THEN Idle
                   ELSE [sentry EXCEPT !.phase = "resting", !.rest = PAUSE]
      /\ UNCHANGED <<rx, wait, files>>
      /\ \/ Published(<<sentry.sweep, BATCHES + 1>>)
         \/ UNCHANGED <<at, samples, timeout>>
  BY DEF Return, session
<1>2. BATCHES \in Nat \ {0} /\ PAUSE \in Nat \ {0} /\ RECEIVE \in Nat \ {0}
  BY MonitorConstants
<1>3. Idle.phase = "idle" /\ Idle \in Sentries
  BY DEF Idle, Sentries
<1>4. Sweeping
  <2>1. ~Starting
    BY <1>1, <1>2 DEF Starting
  <2>2. sentry # Idle
    BY <1>1, <1>3
  <2> QED
    BY <1>1, <2>1, <2>2 DEF InOrder, Stages, Unloaded, Uploaded, Resting, Swept, Over, Ended
<1>5. PICK s \in {1, 2} : s = sentry.sweep
  BY <1>4 DEF Sweeping
<1>6. /\ JustWaiting /\ timeout = 0 /\ Len(files) = s - 1 /\ rx = <<>>
      /\ samples = SweepOf(s, BATCHES)
  BY <1>1, <1>2, <1>4, <1>5 DEF Sweeping
<1>7. SweepOf(s, BATCHES) \in Seq(Batches)
  <2>1. s \in Nat /\ BATCHES \in Nat
    BY <1>2
  <2> QED
    BY <2>1, SweepIsASequence
<1>8. /\ samples' \in Seq(Batches) /\ timeout' = 0 /\ samples' \in AllOf(s)
      /\ JustWaiting'
  <2>1. CASE Published(<<sentry.sweep, BATCHES + 1>>)
    <3>1. s \in Nat /\ BATCHES \in Nat
      BY <1>2
    <3>2. Published(<<s, BATCHES + 1>>)
      BY <1>5, <2>1
    <3> QED
      BY <1>6, <3>1, <3>2, PublishedNext DEF AllOf, InOrder, JustWaiting
  <2>2. CASE UNCHANGED <<at, samples, timeout>>
    BY <1>1, <1>6, <1>7, <2>2 DEF AllOf, JustWaiting
  <2> QED
    BY <1>1, <2>1, <2>2
<1>9. AllIn(s)'
  BY <1>1, <1>6, <1>8 DEF AllIn
<1>10. Waiting' /\ Waited' = 0
  <2>1. timeout' * RECEIVE = 0
    BY <1>2, <1>8
  <2>2. Waiting'
    BY <1>2, <1>8 DEF Waiting, JustWaiting
  <2>3. (IF at' = "loop" THEN 0 ELSE RECEIVE - wait') = 0
    BY <1>2, <1>8 DEF JustWaiting
  <2> QED
    BY <2>1, <2>2, <2>3 DEF Waited
<1>11. sentry' \in Sentries
  BY <1>1, <1>2, <1>3 DEF InOrder, MonitorTypes, Sentries
<1>12. MonitorTypes' /\ FilesWhole'
  BY <1>1, <1>8, <1>11 DEF InOrder, MonitorTypes, FilesWhole
<1>13. CASE s = 2
  <2>1. Swept'
    BY <1>1, <1>5, <1>6, <1>9, <1>10, <1>13 DEF Swept
  <2> QED
    BY <1>12, <2>1 DEF InOrder, Stages
<1>14. CASE s = 1
  <2>1. sentry' = [sentry EXCEPT !.phase = "resting", !.rest = PAUSE]
    BY <1>1, <1>5, <1>14
  <2>2. sentry'.phase = "resting" /\ sentry'.rest = PAUSE /\ sentry'.sweep = s
    BY <1>5, <2>1 DEF InOrder, MonitorTypes, Sentries
  <2>3. sentry'.rest \in 1 .. PAUSE /\ Waited' = PAUSE - sentry'.rest
    BY <1>2, <1>10, <2>2
  <2>4. s \in {0, 1}
    BY <1>14
  <2>5. Resting'
    BY <1>1, <1>6, <1>9, <1>10, <2>2, <2>3, <2>4 DEF Resting
  <2> QED
    BY <1>12, <2>5 DEF InOrder, Stages
<1> QED
  BY <1>13, <1>14

\* A tick in which nothing is published.
LEMMA WaitGoesOn ==
    ASSUME InOrder, Waiting, at = "receive", Wait, UNCHANGED timeout
    PROVE  Waiting' /\ Waited' = Waited + 1 /\ Waited \in Nat
<1>1. RECEIVE \in Nat \ {0} /\ timeout * RECEIVE \in Nat /\ wait \in 1 .. RECEIVE
  BY MonitorConstants DEF InOrder, MonitorTypes, Waiting
<1>2. wait' = wait - 1 /\ at' = (IF wait = 1 THEN "silence" ELSE "receive")
  BY DEF Wait
<1>3. Waiting'
  BY <1>1, <1>2 DEF Waiting
<1>4. Waited = timeout * RECEIVE + (RECEIVE - wait)
  BY DEF Waited
<1>5. Waited' = timeout * RECEIVE + (RECEIVE - (wait - 1))
  BY <1>2 DEF Waited
<1> DEFINE given == timeout * RECEIVE
<1> HIDE DEF given
<1>6. given \in Nat /\ Waited = given + (RECEIVE - wait)
      /\ Waited' = given + (RECEIVE - (wait - 1))
  BY <1>1, <1>4, <1>5 DEF given
<1> QED
  BY <1>1, <1>3, <1>6

LEMMA RestInOrder ==
    ASSUME InOrder, at = "receive", rx = <<>>, Rest, UNCHANGED <<session, files>>
    PROVE  InOrder'
<1>1. /\ sentry.phase # "sweeping" /\ Wait
      /\ UNCHANGED <<rx, timeout, samples, files>>
  BY DEF Rest, session
<1>2. BATCHES \in Nat \ {0} /\ PAUSE \in Nat \ {0}
  BY MonitorConstants
<1>3. sentry \in Sentries
  BY DEF InOrder, MonitorTypes
<1>4. Resting \/ Swept
  BY <1>1 DEF InOrder, Stages, Unloaded, Uploaded, Starting, Sweeping, Over, Ended
<1>5. Waiting' /\ Waited' = Waited + 1 /\ Waited \in Nat
  BY <1>1, <1>4, WaitGoesOn DEF Resting, Swept
<1>6. FilesWhole' /\ (sentry' \in Sentries => MonitorTypes')
  BY <1>1 DEF InOrder, MonitorTypes, FilesWhole
<1>7. (AllIn(0) => AllIn(0)') /\ (AllIn(1) => AllIn(1)') /\ (AllIn(2) => AllIn(2)')
  BY <1>1 DEF AllIn
<1>8. CASE Swept
  <2>1. sentry' = sentry
    BY <1>8 DEF Rest, Swept, Idle
  <2>2. Swept'
    BY <1>1, <1>5, <1>7, <1>8, <2>1 DEF Swept
  <2> QED
    BY <1>3, <1>6, <2>1, <2>2 DEF InOrder, Stages
<1>9. CASE Resting
  <2>1. PICK s \in {0, 1} : s = sentry.sweep
    BY <1>9 DEF Resting
  <2>2. /\ AllIn(s)' /\ sentry.rest \in 1 .. PAUSE /\ sentry.phase = "resting"
        /\ Waited = PAUSE - sentry.rest
    BY <1>7, <1>9, <2>1 DEF Resting
  <2>3. CASE sentry.rest > 1
    <3>1. sentry' = [sentry EXCEPT !.rest = @ - 1]
      BY <1>1, <2>2, <2>3 DEF Rest
    <3>2. /\ sentry'.rest = sentry.rest - 1 /\ sentry'.sweep = s
          /\ sentry'.phase = "resting" /\ sentry' \in Sentries
      BY <1>3, <2>1, <2>2, <2>3, <3>1 DEF Sentries
    <3>3. sentry'.rest \in 1 .. PAUSE /\ Waited' = PAUSE - sentry'.rest
      BY <1>2, <1>5, <2>2, <2>3, <3>2
    <3>4. Resting'
      BY <1>1, <1>5, <2>1, <2>2, <3>2, <3>3 DEF Resting
    <3> QED
      BY <1>6, <3>2, <3>4 DEF InOrder, Stages
  <2>4. CASE ~(sentry.rest > 1)
    <3>1. sentry' = [phase |-> "sweeping", sweep |-> sentry.sweep + 1, rest |-> BATCHES]
      BY <1>1, <2>2, <2>4 DEF Rest
    <3>2. /\ sentry'.rest = BATCHES /\ sentry'.sweep = s + 1 /\ s + 1 \in {1, 2}
          /\ sentry'.phase = "sweeping" /\ sentry' \in Sentries
      BY <1>2, <2>1, <3>1 DEF Sentries
    <3>3. Waited' = PAUSE
      BY <1>2, <1>5, <2>2, <2>4
    <3>4. sentry'.sweep - 1 = s
      BY <3>2
    <3>5. Starting'
      BY <1>1, <1>5, <2>2, <3>2, <3>3, <3>4 DEF Starting
    <3> QED
      BY <1>6, <3>2, <3>5 DEF InOrder, Stages
  <2> QED
    BY <2>3, <2>4
<1> QED
  BY <1>4, <1>8, <1>9

\* The first batch of a sweep finds what was gathered before it written, and
\* every further one the program waiting for it.
LEMMA FillInOrder ==
    ASSUME TimesFit, InOrder, at = "receive", rx = <<>>, Fill, UNCHANGED <<session, files>>
    PROVE  InOrder'
<1>1. /\ sentry.phase = "sweeping" /\ sentry.rest > 0
      /\ sentry' = [sentry EXCEPT !.rest = @ - 1]
      /\ Published(<<sentry.sweep, BATCHES - sentry.rest + 1>>)
      /\ UNCHANGED <<rx, wait, files>>
  BY DEF Fill, session
<1>2. BATCHES \in Nat \ {0} /\ PAUSE \in Nat \ {0} /\ RECEIVE \in Nat \ {0}
  BY MonitorConstants
<1>3. sentry \in Sentries /\ MonitorTypes
  BY DEF InOrder, MonitorTypes
<1>4. Starting \/ Sweeping
  BY <1>1 DEF InOrder, Stages, Unloaded, Uploaded, Resting, Swept, Over, Ended, Idle
<1>5. PICK s \in {1, 2} : s = sentry.sweep
  BY <1>4 DEF Starting, Sweeping
<1> DEFINE n == BATCHES - sentry.rest
<1>6. n \in 0 .. BATCHES - 1 /\ s \in Nat
  BY <1>1, <1>2, <1>4 DEF Starting, Sweeping
<1>7. n \in Nat /\ Published(<<s, n + 1>>)
  BY <1>1, <1>5, <1>6
<1> HIDE DEF n
<1>8. samples = SweepOf(s, n) /\ Len(files) = s - 1
  <2>1. CASE Starting
    <3>1. Waiting /\ Waited = PAUSE /\ sentry.rest = BATCHES /\ AllIn(sentry.sweep - 1)
      BY <2>1 DEF Starting
    <3>2. timeout # 0
      BY <1>2, <1>3, <3>1, WaitedBounds
    <3>3. samples = <<>> /\ Len(files) = s - 1
      BY <1>5, <3>1, <3>2 DEF AllIn
    <3>4. n = 0
      BY <1>2, <3>1 DEF n
    <3>5. SweepOf(s, n) = <<>>
      BY <1>6, <1>7, <3>4, SweepIsASequence
    <3> QED
      BY <3>3, <3>5
  <2>2. CASE Sweeping
    BY <1>5, <2>2 DEF Sweeping, n
  <2> QED
    BY <1>4, <2>1, <2>2
<1>9. samples' = SweepOf(s, n + 1) /\ timeout' = 0 /\ at' = "loop"
  <2>1. Append(SweepOf(s, n), <<s, n + 1>>) = SweepOf(s, n + 1)
    BY <1>6, <1>7, SweepIsASequence
  <2> QED
    BY <1>7, <1>8, <2>1 DEF Published
<1>10. samples' \in Seq(Batches)
  <2>1. n + 1 \in Nat
    BY <1>7
  <2> QED
    BY <1>6, <1>9, <2>1, SweepIsASequence
<1>11. /\ sentry'.phase = "sweeping" /\ sentry'.sweep = s /\ sentry' \in Sentries
       /\ sentry'.rest = sentry.rest - 1
  BY <1>1, <1>3, <1>5 DEF Sentries
<1>12. sentry'.rest \in 0 .. BATCHES - 1 /\ BATCHES - sentry'.rest = n + 1
  BY <1>1, <1>2, <1>3, <1>6, <1>11 DEF n, Sentries
<1>13. MonitorTypes' /\ FilesWhole'
  BY <1>1, <1>9, <1>10, <1>11 DEF InOrder, MonitorTypes, FilesWhole
<1>14. Sweeping'
  BY <1>1, <1>8, <1>9, <1>11, <1>12 DEF Sweeping, JustWaiting
<1> QED
  BY <1>13, <1>14 DEF InOrder, Stages

\* The board handles the program's messages; what its FSMs do is no matter.
LEMMA BoardInOrder ==
    ASSUME InOrder, BoardSteps
    PROVE  InOrder'
<1>1. UNCHANGED <<at, wait, timeout, samples, files>>
  BY DEF BoardSteps, monitor
<1>2. FilesWhole' /\ (sentry' \in Sentries => MonitorTypes')
  BY <1>1 DEF InOrder, MonitorTypes, FilesWhole
<1>3. ASSUME UNCHANGED <<rx, sentry>> PROVE InOrder'
  <2>1. Waited' = Waited /\ (Waiting => Waiting') /\ (JustWaiting => JustWaiting')
    BY <1>1 DEF Waited, Waiting, JustWaiting
  <2>2. (AllIn(0) => AllIn(0)') /\ (AllIn(1) => AllIn(1)') /\ (AllIn(2) => AllIn(2)')
    BY <1>1 DEF AllIn
  <2>3. Resting => Resting'
    BY <1>3, <2>1, <2>2 DEF Resting
  <2>4. Starting => Starting'
    <3> SUFFICES ASSUME Starting PROVE Starting'
      OBVIOUS
    <3>1. sentry.sweep - 1 \in {0, 1}
      BY DEF Starting
    <3> QED
      BY <1>3, <2>1, <2>2, <3>1 DEF Starting
  <2>5. (Unloaded => Unloaded') /\ (Uploaded => Uploaded') /\ (Sweeping => Sweeping')
    BY <1>1, <1>3, <2>1 DEF Unloaded, Uploaded, NothingYet, Sweeping
  <2>6. (Swept => Swept') /\ (Over => Over')
    BY <1>1, <1>3, <2>1, <2>2 DEF Swept, Over, Ended
  <2>7. Stages'
    BY <2>3, <2>4, <2>5, <2>6 DEF InOrder, Stages
  <2>8. sentry' \in Sentries
    BY <1>3 DEF InOrder, MonitorTypes
  <2> QED
    BY <1>2, <2>7, <2>8 DEF InOrder
<1>4. CASE Step /\ UNCHANGED <<monitor, sentry>>
  BY <1>3, <1>4 DEF Step
<1>5. CASE SerialCallback /\ sentry' = SentryHandled(Head(rx)) /\ UNCHANGED monitor
  <2> DEFINE create == [kind |-> "CREATE", fp |-> SentryFp]
             destroy == [kind |-> "DESTROY", fp |-> SentryFp]
  <2>1. rx # <<>> /\ rx' = Tail(rx) /\ sentry' = SentryHandled(Head(rx))
    BY <1>5 DEF SerialCallback
  <2>2. Uploaded \/ Over
    BY <2>1 DEF InOrder, Stages, Unloaded, Resting, Starting, Sweeping, Swept
  <2>3. PAUSE \in Nat \ {0} /\ RECEIVE \in Nat \ {0}
    BY MonitorConstants
  <2>4. CASE Uploaded
    <3>1. rx = <<create>>
      BY <2>4 DEF Uploaded
    <3>2. Head(rx) = create /\ rx' = <<>>
      BY <2>1, <3>1
    <3>3. sentry' = [phase |-> "resting", sweep |-> 0, rest |-> PAUSE]
      BY <2>1, <3>2 DEF SentryHandled
    <3>4. /\ sentry'.phase = "resting" /\ sentry'.sweep = 0 /\ sentry'.rest = PAUSE
          /\ sentry' \in Sentries /\ sentry'.rest \in 1 .. PAUSE
      BY <2>3, <3>3 DEF Sentries
    <3>5. Waiting' /\ timeout' = 0 /\ (IF at' = "loop" THEN 0 ELSE RECEIVE - wait') = 0
      BY <1>1, <2>3, <2>4 DEF Uploaded, JustWaiting, Waiting, NothingYet
    <3>6. Waited' = PAUSE - sentry'.rest
      <4>1. timeout' * RECEIVE = 0 /\ PAUSE - sentry'.rest = 0
        BY <2>3, <3>4, <3>5
      <4> QED
        BY <3>5, <4>1 DEF Waited
    <3>7. AllIn(0)'
      BY <1>1, <2>4 DEF Uploaded, NothingYet, AllIn
    <3>8. Resting'
      BY <3>2, <3>4, <3>5, <3>6, <3>7 DEF Resting
    <3> QED
      BY <1>2, <3>4, <3>8 DEF InOrder, Stages
  <2>5. CASE Over
    <3>1. rx = <<destroy>>
      BY <2>1, <2>5 DEF Over, Ended
    <3>2. Head(rx) = destroy /\ rx' = <<>>
      BY <2>1, <3>1
    <3>3. destroy # create
      <4>1. destroy.kind = "DESTROY" /\ create.kind = "CREATE"
        OBVIOUS
      <4> HIDE DEF destroy, create
      <4> QED
        BY <4>1
    <3>4. sentry' = Idle
      BY <2>1, <3>2, <3>3 DEF SentryHandled
    <3>5. sentry' = sentry /\ sentry' \in Sentries
      BY <2>5, <3>4 DEF Over, Ended, InOrder, MonitorTypes
    <3>6. Over'
      BY <1>1, <2>5, <3>2, <3>4 DEF Over, Ended
    <3> QED
      BY <1>2, <3>5, <3>6 DEF InOrder, Stages
  <2> QED
    BY <2>2, <2>4, <2>5
<1> QED
  BY <1>4, <1>5 DEF BoardSteps

\* A program, a Sentry and a board in any state of the invariant stay in it.
LEMMA MonitorKeepsOrder ==
    ASSUME TimesFit, MonitorInv, [MonitorNext]_vars
    PROVE  MonitorInv'
<1>1. CASE UNCHANGED vars
  <2>1. UNCHANGED <<program, at, wait, timeout, samples, files, sentry, rx>>
    BY <1>1 DEF vars, monitor, session
  <2>2. Waited' = Waited /\ (Waiting <=> Waiting') /\ (JustWaiting <=> JustWaiting')
    BY <2>1 DEF Waited, Waiting, JustWaiting
  <2>3. Stages' = Stages
    BY <2>1, <2>2 DEF Stages, Unloaded, Uploaded, NothingYet, Resting, Starting, Sweeping,
                      Swept, Over, Ended, AllIn
  <2>4. InOrder' = InOrder
    BY <2>1, <2>3 DEF InOrder, MonitorTypes, FilesWhole
  <2> QED
    BY <2>1, <2>4 DEF MonitorInv
<1>2. CASE program = "monitor" /\ MonitorNext
  <2>1. InOrder
    BY <1>2 DEF MonitorInv
  <2>2. program' = program
    BY <1>2 DEF MonitorNext, BoardSteps, monitor, Monitor, Connect, Upload, CallReceive,
                Silence, Finish, DestroyWritten, DestroyDiscarded, Return, Tick
  <2>3. CASE Tick
    <3>1. at = "receive" /\ rx = <<>> /\ UNCHANGED <<session, files>> /\ (Rest \/ Fill)
      BY <2>3 DEF Tick
    <3> QED
      BY <1>2, <2>1, <2>2, <3>1, RestInOrder, FillInOrder DEF MonitorInv
  <2>4. CASE Monitor
    <3>1. InOrder'
      BY <2>1, <2>4, ConnectInOrder, CallReceiveInOrder, SilenceInOrder, FinishInOrder,
         CloseInOrder
         DEF Monitor
    <3> QED
      BY <1>2, <2>2, <3>1 DEF MonitorInv
  <2>5. CASE BoardSteps \/ Return
    <3>1. InOrder'
      BY <2>1, <2>5, BoardInOrder, ReturnInOrder
    <3> QED
      BY <1>2, <2>2, <3>1 DEF MonitorInv
  <2> QED
    BY <1>2, <2>3, <2>4, <2>5 DEF MonitorNext
<1>3. CASE program # "monitor" /\ MonitorNext
  <2>1. UNCHANGED <<program, at, files>>
    BY <1>3 DEF MonitorNext, BoardSteps, monitor
  <2> QED
    BY <1>3, <2>1 DEF MonitorInv
<1> QED
  BY <1>1, <1>2, <1>3

\* Every sweep comes in, in its own order, and is written to a file of its own; at
\* most its last message is missing, and the program does not end between two
\* sweeps: for sweeps of any length and any times that fit each other
\* (SentryMonitor.cpp:64-109).
THEOREM SweepsAreWritten ==
    ASSUME TimesFit
    PROVE  MonitorSpec => []OnlyTheLastIsMissed
<1>1. MonitorInit => MonitorInv
  <2> SUFFICES ASSUME MonitorInit PROVE MonitorInv
    OBVIOUS
  <2>1. /\ program \in {"console", "monitor"} /\ at = "start" /\ rx = <<>> /\ sentry = Idle
        /\ timeout = 0 /\ samples = <<>> /\ files = <<>>
    BY DEF MonitorInit, Booted
  <2>2. Idle \in Sentries
    BY DEF Idle, Sentries
  <2>3. <<>> \in Seq(Batches) /\ <<>> \in Seq(Seq(Batches))
    OBVIOUS
  <2>4. MonitorTypes /\ FilesWhole /\ Unloaded
    BY <2>1, <2>2, <2>3 DEF MonitorTypes, FilesWhole, Unloaded, NothingYet
  <2> QED
    BY <2>1, <2>4 DEF MonitorInv, InOrder, Stages
<1>2. MonitorInv /\ [MonitorNext]_vars => MonitorInv'
  BY MonitorKeepsOrder
<1>3. MonitorInv => OnlyTheLastIsMissed
  <2>1. CASE at = "start" /\ files = <<>>
    BY <2>1 DEF OnlyTheLastIsMissed, Ended
  <2>2. CASE InOrder
    <3>1. \A j \in DOMAIN files :
             files[j] \in {<<>>, SweepOf(j, BATCHES), SweepOf(j, BATCHES + 1)}
      BY <2>2 DEF InOrder, MonitorTypes, FilesWhole, AllOf
    <3>2. at \in Ended => Len(files) = 2
      BY <2>2 DEF InOrder, Stages, Unloaded, Uploaded, JustWaiting, Resting, Starting,
                  Waiting, Sweeping, Swept, Over, Ended
    <3> QED
      BY <3>1, <3>2 DEF OnlyTheLastIsMissed
  <2> QED
    BY <2>1, <2>2 DEF MonitorInv
<1> QED
  BY <1>1, <1>2, <1>3, PTL DEF MonitorSpec
=============================================================================

--------------------------- MODULE Upstart_proofs ----------------------------
(***************************************************************************)
(* Every press a thread answers has happened: a press is what makes the    *)
(* value differ from the one Poll() read at its beginning.  PressIsFresh   *)
(* says so while Poll() waits, which AnswersArePresses alone does not.     *)
(***************************************************************************)
EXTENDS Upstart, TLAPS

Labels == {"start", "join", "last", "none", "setup", "check", "poll", "wait",
           "pressed", "released", "timed out", "exit", "done"}

\* As much of the types as the proof needs: which functions these are.
Functions ==
    /\ pc \in [Threads -> Labels]
    /\ level \in [Buttons -> {0, 1}]
    /\ initial_value \in [Buttons -> {0, 1}]
    /\ fresh \in [Buttons -> BOOLEAN]

\* Down now and up when Poll() was called: pressed in between.
PressIsFresh ==
    \A t \in Buttons : pc[t] = "wait" /\ level[t] = 0 /\ initial_value[t] = 1 => fresh[t]

PressInv == Functions /\ PressIsFresh /\ AnswersArePresses

\* Steps that know nothing of the buttons: a thread goes to where it neither
\* waits nor answers a press.
Moves(t, label) ==
    /\ label \in Labels \ {"wait", "pressed"}
    /\ pc' = [pc EXCEPT ![t] = label]
    /\ level' = level /\ initial_value' = initial_value /\ fresh' = fresh

LEMMA MovesKeepsPresses ==
    ASSUME NEW t \in Threads, NEW label, PressInv, Moves(t, label) PROVE PressInv'
<1> USE DEF PressInv, Functions, Moves
<1>1. pc' \in [Threads -> Labels]
      OBVIOUS
<1>2. Functions'
      BY <1>1
<1>3. ASSUME NEW b \in Buttons, pc'[b] \in {"wait", "pressed"} PROVE pc'[b] = pc[b]
      BY <1>3 DEF Threads
<1>4. PressIsFresh'
  <2> SUFFICES ASSUME NEW b \in Buttons,
                      pc'[b] = "wait", level'[b] = 0, initial_value'[b] = 1
               PROVE  fresh'[b]
      BY DEF PressIsFresh
  <2>1. pc[b] = "wait"
        BY <1>3
  <2>2. fresh[b]
        BY <2>1 DEF PressIsFresh
  <2> QED BY <2>2
<1>5. AnswersArePresses'
  <2> SUFFICES ASSUME NEW b \in Buttons, pc'[b] = "pressed" PROVE fresh'[b]
      BY DEF AnswersArePresses
  <2>1. pc[b] = "pressed"
        BY <1>3
  <2>2. fresh[b]
        BY <2>1 DEF AnswersArePresses
  <2> QED BY <2>2
<1> QED BY <1>2, <1>4, <1>5

\* Poll() begins: the value it read is the value there is.
LEMMA PollBeginKeepsPresses ==
    ASSUME NEW t \in Buttons, PressInv, PollBegin(t) PROVE PressInv'
<1> USE DEF PressInv, Functions
<1>1. /\ pc' = [pc EXCEPT ![t] = "wait"]
      /\ initial_value' = [initial_value EXCEPT ![t] = level[t]]
      /\ level' = level /\ fresh' = fresh
      BY DEF PollBegin, Goto
<1>2. Functions'
      BY <1>1 DEF Labels
<1>3. PressIsFresh'
  <2> SUFFICES ASSUME NEW b \in Buttons,
                      pc'[b] = "wait", level'[b] = 0, initial_value'[b] = 1
               PROVE  fresh'[b]
      BY DEF PressIsFresh
  <2>1. b # t /\ pc[b] = "wait" /\ level[b] = 0 /\ initial_value[b] = 1
        BY <1>1 DEF Threads
  <2>2. fresh[b]
        BY <2>1 DEF PressIsFresh
  <2> QED BY <1>1, <2>2
<1>4. AnswersArePresses'
  <2> SUFFICES ASSUME NEW b \in Buttons, pc'[b] = "pressed" PROVE fresh'[b]
      BY DEF AnswersArePresses
  <2>1. pc[b] = "pressed"
        BY <1>1 DEF Threads
  <2>2. fresh[b]
        BY <2>1 DEF AnswersArePresses
  <2> QED BY <1>1, <2>2
<1> QED BY <1>2, <1>3, <1>4

\* It ends with a press: the button is down now and was up then.
LEMMA PollWakesKeepsPresses ==
    ASSUME NEW t \in Buttons, PressInv, PollWakes(t) PROVE PressInv'
<1> USE DEF PressInv, Functions
<1>1. level' = level /\ initial_value' = initial_value /\ fresh' = fresh
      BY DEF PollWakes
<1>2. CASE UNCHANGED pc
      BY <1>1, <1>2 DEF PressIsFresh, AnswersArePresses
<1>3. CASE level[t] # initial_value[t] /\ level[t] = 0
  <2>1. pc[t] = "wait" /\ pc' = [pc EXCEPT ![t] = "pressed"]
        BY <1>3 DEF PollWakes, Goto
  <2>2. fresh[t]
        BY <1>3, <2>1 DEF PressIsFresh
  <2>3. Functions'
        BY <1>1, <2>1 DEF Labels
  <2>4. PressIsFresh'
    <3> SUFFICES ASSUME NEW b \in Buttons,
                        pc'[b] = "wait", level'[b] = 0, initial_value'[b] = 1
                 PROVE  fresh'[b]
        BY DEF PressIsFresh
    <3>1. pc[b] = "wait"
          BY <2>1 DEF Threads
    <3>2. fresh[b]
          BY <1>1, <3>1 DEF PressIsFresh
    <3> QED BY <1>1, <3>2
  <2>5. AnswersArePresses'
    <3> SUFFICES ASSUME NEW b \in Buttons, pc'[b] = "pressed" PROVE fresh'[b]
        BY DEF AnswersArePresses
    <3>1. b = t \/ pc[b] = "pressed"
          BY <2>1 DEF Threads
    <3>2. fresh[b]
          BY <2>2, <3>1 DEF AnswersArePresses
    <3> QED BY <1>1, <3>2
  <2> QED BY <2>3, <2>4, <2>5
<1>4. CASE level[t] # initial_value[t] /\ level[t] # 0
  <2>1. Moves(t, "released")
        BY <1>1, <1>4 DEF PollWakes, Goto, Moves, Labels
  <2> QED BY <2>1, MovesKeepsPresses DEF Threads
<1> QED BY <1>2, <1>3, <1>4 DEF PollWakes

\* A press is answered, and the thread no longer owes an answer.
LEMMA PressedKeepsPresses ==
    ASSUME NEW t \in Buttons, PressInv, Pressed(t) PROVE PressInv'
<1> USE DEF PressInv, Functions
<1>1. /\ pc' = [pc EXCEPT ![t] = "check"]
      /\ fresh' = [fresh EXCEPT ![t] = FALSE]
      /\ level' = level /\ initial_value' = initial_value
      BY DEF Pressed, Goto, buttons
<1>2. Functions'
  <2>1. fresh' \in [Buttons -> BOOLEAN]
        BY <1>1, Zenon
  <2> QED BY <1>1, <2>1 DEF Labels
<1>3. ASSUME NEW b \in Buttons, pc'[b] \in {"wait", "pressed"}
      PROVE  b # t /\ pc'[b] = pc[b]
      BY <1>1, <1>3 DEF Threads
<1>4. ASSUME NEW b \in Buttons, b # t, fresh[b] PROVE fresh'[b]
      BY <1>1, <1>4, Zenon
<1>5. PressIsFresh'
  <2> SUFFICES ASSUME NEW b \in Buttons,
                      pc'[b] = "wait", level'[b] = 0, initial_value'[b] = 1
               PROVE  fresh'[b]
      BY DEF PressIsFresh
  <2>1. b # t /\ pc[b] = "wait"
        BY <1>3
  <2>2. fresh[b]
        BY <1>1, <2>1 DEF PressIsFresh
  <2> QED BY <1>4, <2>1, <2>2
<1>6. AnswersArePresses'
  <2> SUFFICES ASSUME NEW b \in Buttons, pc'[b] = "pressed" PROVE fresh'[b]
      BY DEF AnswersArePresses
  <2>1. b # t /\ pc[b] = "pressed"
        BY <1>3
  <2>2. fresh[b]
        BY <2>1 DEF AnswersArePresses
  <2> QED BY <1>4, <2>1, <2>2
<1> QED BY <1>2, <1>5, <1>6

LEMMA ThreadKeepsPresses ==
    ASSUME NEW t \in Buttons, PressInv, Thread(t) \/ Throws(t) PROVE PressInv'
<1>1. ASSUME NEW label, Moves(t, label) PROVE PressInv'
      BY <1>1, MovesKeepsPresses DEF Threads
<1>2. CASE PollTimesOut(t)
      BY <1>1, <1>2 DEF PollTimesOut, Moves, Goto, Labels, buttons
<1>3. CASE SetUp(t)
      BY <1>1, <1>3 DEF SetUp, Moves, Goto, Labels
<1>4. CASE Check(t)
  <2>1. Moves(t, IF m_bRunning THEN "poll" ELSE "exit")
        BY <1>4 DEF Check, Moves, Goto, Labels, buttons
  <2> QED BY <1>1, <2>1
<1>5. CASE Released(t)
      BY <1>1, <1>5 DEF Released, Moves, Goto, Labels, buttons
<1>6. CASE Exit(t)
      BY <1>1, <1>6 DEF Exit, Moves, Goto, Labels, buttons
<1>7. CASE t = "green" /\ GreenTimedOut
      BY <1>1, <1>7 DEF GreenTimedOut, Moves, Goto, Labels, buttons
<1>8. CASE t = "red" /\ RedTimedOut
      BY <1>1, <1>8 DEF RedTimedOut, Moves, Goto, Labels
<1>9. CASE Throws(t)
      BY <1>1, <1>9 DEF Throws, Moves, Goto, Labels, buttons
<1> QED BY <1>2, <1>3, <1>4, <1>5, <1>6, <1>7, <1>8, <1>9, PollBeginKeepsPresses,
           PollWakesKeepsPresses, PressedKeepsPresses DEF Thread

\* Main() starts the threads where they do not wait yet, and ends behind them.
LEMMA MainKeepsPresses == PressInv /\ Main => PressInv'
<1> SUFFICES ASSUME PressInv, Main PROVE PressInv'
    OBVIOUS
<1>1. CASE Start
  <2>1. /\ pc' = [t \in Threads |-> IF t = "main" THEN "join" ELSE "setup"]
        /\ UNCHANGED <<level, initial_value, fresh>>
        BY <1>1 DEF Start, buttons, Labels
  <2>2. \A t \in Buttons : pc'[t] = "setup"
        BY <2>1 DEF Threads, Buttons
  <2>3. pc' \in [Threads -> Labels]
        BY <2>1 DEF Labels
  <2> QED BY <2>1, <2>2, <2>3 DEF PressInv, Functions, PressIsFresh, AnswersArePresses
<1>2. CASE Join
  <2>1. Moves("main", "last")
        BY <1>2 DEF Join, Moves, Goto, Labels, buttons
  <2> QED BY <2>1, MovesKeepsPresses DEF Threads
<1>3. CASE Last
  <2>1. Moves("main", "done")
        BY <1>3 DEF Last, Moves, Goto, Labels, buttons
  <2> QED BY <2>1, MovesKeepsPresses DEF Threads
<1> QED BY <1>1, <1>2, <1>3 DEF Main

\* A change of the button is a press if it goes down.
LEMMA ChangeKeepsPresses ==
    ASSUME NEW t \in Buttons, PressInv, Change(t) PROVE PressInv'
<1> USE DEF PressInv, Functions
<1>1. UNCHANGED pc /\ UNCHANGED initial_value
      BY DEF Change
<1>2. level' \in [Buttons -> {0, 1}] /\ level' = [level EXCEPT ![t] = 1 - @]
      BY DEF Change
<1>3. fresh' = [fresh EXCEPT ![t] = fresh[t] \/ level[t] = 1]
      BY DEF Change
<1>4. fresh' \in [Buttons -> BOOLEAN]
      BY <1>3, Zenon
<1>5. ASSUME NEW b \in Buttons, fresh[b] PROVE fresh'[b]
      BY <1>3, <1>5, Zenon
<1>6. level[t] = 1 => fresh'[t]
      BY <1>3, Zenon
<1>7. PressIsFresh'
  <2> SUFFICES ASSUME NEW b \in Buttons,
                      pc'[b] = "wait", level'[b] = 0, initial_value'[b] = 1
               PROVE  fresh'[b]
      BY DEF PressIsFresh
  <2>1. CASE b = t /\ level[t] = 1
        BY <2>1, <1>6
  <2>2. CASE level[b] = 0
        BY <2>2, <1>1, <1>5 DEF PressIsFresh
  <2> QED BY <2>1, <2>2, <1>2
<1>8. AnswersArePresses'
      BY <1>1, <1>5 DEF AnswersArePresses
<1> QED BY <1>1, <1>2, <1>4, <1>7, <1>8

\* "verify: Guard against spurious wakeups" (GPIO.h:179): a thread answers a
\* press only if there was one since the last it answered, for any number of
\* presses, any timeout, and whatever throws.
THEOREM PressesAnswered == Spec => []AnswersArePresses
<1>1. Init => PressInv
  <2> SUFFICES ASSUME Init PROVE PressInv
      OBVIOUS
  <2>1. pc = [t \in Threads |-> IF t = "main" THEN "start" ELSE "none"]
        BY DEF Init
  <2>2. pc \in [Threads -> Labels] /\ \A t \in Buttons : pc[t] = "none"
        BY <2>1 DEF Threads, Buttons, Labels
  <2>3. Functions
        BY <2>2 DEF Init, Functions
  <2> QED BY <2>2, <2>3 DEF PressInv, PressIsFresh, AnswersArePresses
<1>2. PressInv /\ [Next]_vars => PressInv'
  <2> SUFFICES ASSUME PressInv, [Next]_vars PROVE PressInv'
      OBVIOUS
  <2>1. CASE Main
        BY <2>1, MainKeepsPresses
  <2>2. ASSUME NEW t \in Buttons, Thread(t) \/ Throws(t) PROVE PressInv'
        BY <2>2, ThreadKeepsPresses
  <2>3. ASSUME NEW t \in Buttons, Change(t) PROVE PressInv'
        BY <2>3, ChangeKeepsPresses
  <2>4. ASSUME NEW t \in Threads, Uncaught(t) PROVE PressInv'
        BY <2>4 DEF Uncaught, PressInv, Functions, PressIsFresh, AnswersArePresses, buttons
  <2>5. CASE Tick
        BY <2>5 DEF Tick, PressInv, Functions, PressIsFresh, AnswersArePresses, buttons
  <2>6. CASE UNCHANGED vars
        BY <2>6 DEF vars, PressInv, Functions, PressIsFresh, AnswersArePresses, buttons
  <2> QED BY <2>1, <2>2, <2>3, <2>4, <2>5, <2>6 DEF Next
<1>3. PressInv => AnswersArePresses
      BY DEF PressInv
<1> QED BY <1>1, <1>2, <1>3, PTL DEF Spec
=============================================================================

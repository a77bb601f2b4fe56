---------------------------- MODULE ChristmasTree ----------------------------
(***************************************************************************)
(* The ChristmasTree: five faders, four of which take turns to flare up    *)
(* and die down, so that the light seems to spin.  The fifth, on the       *)
(* emergency light, is part of the start only (constant level).            *)
(*                                                                         *)
(* Nothing ever assigns the states Off, OffStart, Emergency and            *)
(* EmergencyStart: the first two have code that cannot be reached, the     *)
(* others none.                                                            *)
(***************************************************************************)
EXTENDS Fade

CONSTANT TreeRate    \* <<SPEED, m_delay>>: 1200 and 50

ASSUME TreeAssumption == TreeRate \in Rates

Lights == 0 .. 4
Spinners == 0 .. 3     \* all but the emergency fader

\* The pins, starting from the Arduino, going clockwise.
TreePin(k) == <<"LED_UV", "LED_RED", "LED_YELLOW", "LED_GREEN", "LED_EMERGENCY">>[k + 1]
TreePins == {TreePin(k) : k \in Lights}

Trees ==
    [state : {"SpinningStart", "Spinning"}, target : Spinners, fader : [Lights -> Faders]]

NewTree ==
    [state |-> "SpinningStart", target |-> 0, fader |-> [k \in Lights |-> NewFader(TreeRate)]]

Following(k) == (k + 1) % 4

\* The case SpinningStart: rev up the target, dim the rest; when all are right
\* the target goes on, down again, and the next light becomes the target.
InPlace(tree, k) == tree.fader[k].brightness = (IF k = tree.target THEN FULL ELSE 0)

RevUp(tree) ==
    LET held == [k \in Lights |->
            IF InPlace(tree, k) THEN Frozen(tree.fader[k])
            ELSE Aimed(tree.fader[k], IF k = tree.target THEN "UP" ELSE "DOWN")]
    IN  IF \A k \in Lights : InPlace(tree, k)
        THEN [state |-> "Spinning", target |-> Following(tree.target),
              fader |-> [held EXCEPT ![tree.target] = Enabled(@)]]
        ELSE [tree EXCEPT !.fader = held]

\* The case Spinning: a target at full brightness hands on to the next light;
\* the target and the lights that are not dark yet go on.  (Slips: the
\* emergency light is enabled like the others; a light that has reached 0 is
\* not stopped.)
Spin_Emergency(tree) ==
    LET t == IF tree.fader[tree.target].brightness = FULL
             THEN Following(tree.target) ELSE tree.target
    IN  [tree EXCEPT !.target = t,
                     !.fader = [k \in Lights |-> Enabled(tree.fader[k])]]
Spin_NeverStops(tree) ==
    LET t == IF tree.fader[tree.target].brightness = FULL
             THEN Following(tree.target) ELSE tree.target
    IN  [tree EXCEPT !.target = t,
                     !.fader = [k \in Lights |->
                         IF k \in Spinners THEN Enabled(tree.fader[k]) ELSE tree.fader[k]]]
Spin(tree) ==
    LET t == IF tree.fader[tree.target].brightness = FULL
             THEN Following(tree.target) ELSE tree.target
        GoesOn(k) == k = t \/ tree.fader[k].brightness # 0
    IN  [tree EXCEPT !.target = t,
                     !.fader = [k \in Lights |->
                         IF k \notin Spinners THEN tree.fader[k]
                         ELSE IF GoesOn(k) THEN Enabled(tree.fader[k])
                         ELSE Frozen(tree.fader[k])]]

Transition(tree) == IF tree.state = "SpinningStart" THEN RevUp(tree) ELSE Spin(tree)

\* Step(): the transition, then a step of every fader, and one more for a
\* target that is not at full brightness yet.
TreeStepped(tree) ==
    LET next == Transition(tree)
        Twice(k) == /\ next.state = "Spinning"
                    /\ k = next.target
                    /\ Faded(next.fader[k]).brightness < FULL
    IN  [next EXCEPT !.fader = [k \in Lights |->
            IF Twice(k) THEN Faded(Faded(next.fader[k])) ELSE Faded(next.fader[k])]]

\* The faders that write their pin in that step.
Written(tree) == {k \in Lights : Transition(tree).fader[k].enabled}
=============================================================================

------------------------------ MODULE TapDance ------------------------------
(***************************************************************************)
(* Tap dances, src/app/src/behaviors/behavior_tap_dance.c, as functions of *)
(* a state `s' with the fields                                             *)
(*   dances  the slots of active_tap_dances                                *)
(*   on      how often each behavior is pressed                            *)
(* The module that extends this one keeps the state and the clock: Combo,  *)
(* whose listener stands in front of the one of tap dances.                *)
(***************************************************************************)
EXTENDS Integers, Sequences, FiniteSets

CONSTANTS
    Positions, None,
    Dances,        \* CONFIG_ZMK_BEHAVIOR_TAP_DANCE_MAX_HELD
    TappingTerm,   \* tapping-term-ms
    BehaviorCount  \* bindings of a tap dance

FreeDance == [position |-> None, counter |-> 0, is_pressed |-> FALSE, decided |-> FALSE,
              release_at |-> 0, timer |-> FALSE]

\* zmk_behavior_invoke_binding; b is who invokes it and which of its bindings
InvokeCombo(s, b, pressed) == [s EXCEPT !.on[b] = IF pressed THEN @ + 1 ELSE @ - 1]

Binding(d) == <<d.position, d.counter>>
\* mutant of PressDance: the dance is not marked as decided
PressDanceUndecided(s, i) == InvokeCombo(s, Binding(s.dances[i]), TRUE)
PressDance(s, i) == InvokeCombo([s EXCEPT !.dances[i].decided = TRUE], Binding(s.dances[i]), TRUE)
ReleaseDance(s, i) == InvokeCombo([s EXCEPT !.dances[i].position = None], Binding(s.dances[i]), FALSE)

FindDance(s, p) == {i \in 1 .. Dances : s.dances[i].position = p}
First(S) == CHOOSE i \in S : \A j \in S : i <= j

DancePressed(s, p, ts, now) ==
    LET found == FindDance(s, p)
        room == FindDance(s, None)
        i == First(IF found = {} THEN room ELSE found)
        d == IF found = {} THEN [FreeDance EXCEPT !.position = p] ELSE s.dances[i]
        counter == IF d.counter < BehaviorCount THEN d.counter + 1 ELSE d.counter
        t == [s EXCEPT !.dances[i] = [d EXCEPT !.is_pressed = TRUE, !.timer = FALSE,
                                               !.counter = counter]]
    IN  IF found \cup room = {} THEN s
        ELSE IF counter = BehaviorCount THEN PressDance(t, i)
        ELSE [t EXCEPT !.dances[i].release_at = ts + TappingTerm,
                       !.dances[i].timer = ts + TappingTerm > now]

\* mutant of DanceReleased: the behavior is not released
DanceReleasedNever(s, p) ==
    LET found == FindDance(s, p)
    IN  IF found = {} THEN s ELSE [s EXCEPT !.dances[First(found)].is_pressed = FALSE]
DanceReleased(s, p) ==
    LET found == FindDance(s, p)
        i == First(found)
        t == [s EXCEPT !.dances[i].is_pressed = FALSE]
    IN  IF found = {} THEN s ELSE IF t.dances[i].decided THEN ReleaseDance(t, i) ELSE t

\* The dance is decided, and over if its key is up.
DecideDance(s, i) ==
    IF s.dances[i].is_pressed THEN PressDance(s, i) ELSE ReleaseDance(PressDance(s, i), i)

\* behavior_tap_dance_timer_handler
DanceTimer(s, i) ==
    LET t == [s EXCEPT !.dances[i].timer = FALSE]
    IN  IF t.dances[i].position = None THEN t ELSE DecideDance(t, i)

\* mutant of DanceInterrupt: the dance is left to the next key
DanceInterruptLater(s, p) ==
    [s EXCEPT !.dances = [i \in 1 .. Dances |->
        IF s.dances[i].position \notin {p, None} THEN [@[i] EXCEPT !.timer = FALSE] ELSE @[i]]]
\* tap_dance_position_state_changed_listener: the press of another key stops the
\* timers up to the first dance that is undecided, which it decides.
DanceInterrupt(s, p) ==
    LET others == {i \in 1 .. Dances : s.dances[i].position \notin {p, None}}
        undecided == {i \in others : ~s.dances[i].decided}
        reached == {i \in others : \A j \in undecided : i <= j}
        t == [s EXCEPT !.dances = [i \in 1 .. Dances |->
                 IF i \in reached THEN [@[i] EXCEPT !.timer = FALSE] ELSE @[i]]]
    IN  IF undecided = {} THEN t ELSE DecideDance(t, First(undecided))
=============================================================================

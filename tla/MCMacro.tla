------------------------------- MODULE MCMacro -------------------------------
(***************************************************************************)
(* Instances of Macro, KeyListeners and Combo.  They share no state: in    *)
(* each behavior one of them moves, chosen initially, and the others rest  *)
(* in one of their initial states.                                         *)
(***************************************************************************)
EXTENDS Macro, KeyListeners, Combo, TLC

CONSTANTS shift, kA, kB, one, two, outer, inner, knob

ThreeKeys == {shift, kA, kB}
Tap(k) == <<"invoke", k>>
Mode(m) == <<"mode", m>>

\* one: shift is held around A, as in the docs' ZMK macro.
\* two: A while the key is held, then a tap of shift.
\* outer taps inner, then B; inner taps A.
One == one :> <<Mode("press"), Tap(shift), <<"wait_time", 2>>, Mode("tap"), Tap(kA),
                Mode("release"), Tap(shift)>>
Two == two :> <<Mode("press"), Tap(kA), <<"pause", 0>>, Mode("release"), Tap(kA)>>
Nested == (outer :> <<Tap(inner), Tap(kB)>>) @@ (inner :> <<Tap(kA)>>)
FourMacros == One @@ Two @@ Nested
Taps == (one :> 1) @@ (two :> 1) @@ (outer :> 3) @@ (inner :> 1)
Waits == (one :> 1) @@ (two :> 1) @@ (outer :> 0) @@ (inner :> 1)
Knob == knob :> [of |-> kA, tap |-> 1]
NoSensor == [x \in {} |-> 0]
UpTo3 == 0 .. 3

\* The theorems about macros hold of these.
ASSUME MacrosAreTidy == ReleasesWhatItPresses /\ AllWaitAfterMacros

\* Sticky keys, the caps word, the repeat and the toggle key, beside plain keys.  A lazy
\* sticky shift is not put beside a shift key: pressing it again can be seen.
CONSTANTS ctrl, A, space, mo, k1, k2, k3, k4
FourKeys == {k1, k2, k3, k4}
On(b, u) == [b |-> b, u |-> u]
Sticky == (k1 :> On("sk", shift)) @@ (k3 :> On("kp", A))
TwoStickies == Sticky @@ (k2 :> On("sk", ctrl)) @@ (k4 :> On("kp", space))
WithLayer == Sticky @@ (k2 :> On("sk", mo)) @@ (k4 :> On("kp", ctrl))
Repeating == Sticky @@ (k2 :> On("caps_word", A)) @@ (k4 :> On("key_repeat", A))
WithCapsWord == Sticky @@ (k2 :> On("caps_word", A)) @@ (k4 :> On("kp", space))
WithShift == Sticky @@ (k2 :> On("kp", shift)) @@ (k4 :> On("toggle", space))
AllFlags == {"lazy", "quick_release", "ignore_modifiers"}
SomeListeners == {TwoStickies} \X { {}, {"lazy"}, {"quick_release"}, {"ignore_modifiers"} }
                 \cup {WithLayer, Repeating} \X { {}, AllFlags }
                 \cup {WithCapsWord} \X { {"lazy"}, {"quick_release"} }
                 \cup {WithShift} \X { {}, {"ignore_modifiers"} }

\* One combo inside another; two that share a key; one that needs idle time, or a
\* layer; and tap dances on a key of a combo and beside it.
CONSTANTS posA, posB, posC, posD
C(keys, timeout, slow) == [keys |-> keys, timeout |-> timeout, slow |-> slow, idle |-> 0, layers |-> {}]
Board(combos, dances, layer) == [combos |-> combos, dances |-> dances, layer |-> layer, room |-> 1,
                                 long64 |-> TRUE, apart |-> FALSE, events |-> 6, time |-> 5]
Overlap == Board(<<C({posA, posB}, 2, FALSE), C({posA, posB, posC}, 3, TRUE)>>, {posD}, {})
Sharing == Board(<<C({posA, posB}, 2, TRUE), C({posB, posC}, 2, FALSE), C({posC, posD}, 2, FALSE)>>, {}, {})
Layered == Board(<<[C({posA, posB}, 2, FALSE) EXCEPT !.layers = {1}], C({posB, posC, posD}, 2, FALSE)>>, {}, {posD})
Idle == Board(<<[C({posA, posB}, 2, FALSE) EXCEPT !.idle = 2], C({posB, posC}, 2, TRUE)>>, {posC, posD}, {})
\* A combo finds no room while a longer one is still possible.
Crowded == [Board(<<C({posA, posB}, 2, FALSE), C({posB, posC}, 2, FALSE), C({posC, posD}, 2, FALSE),
                    C({posB, posC, posD}, 2, FALSE)>>, {}, {}) EXCEPT !.events = 8, !.time = 3]
Boards == {Crowded, Overlap, Layered, Idle, [Sharing EXCEPT !.long64 = FALSE], [Layered EXCEPT !.apart = TRUE, !.room = 3]}

CONSTANT Parts
VARIABLE part    \* what moves: "macro", "listeners" or "combo"
AllVars == <<part, vars, listeners_vars, combo_vars>>

AllInit ==
    /\ part \in Parts /\ Init /\ ListenersInit /\ ComboInit
    /\ part = "listeners" \/ (keymap = TwoStickies /\ flags = {})
    /\ part = "combo" \/ build = Overlap
AllNext ==
    /\ UNCHANGED part
    /\ \/ part = "macro" /\ Next /\ UNCHANGED <<listeners_vars, combo_vars>>
       \/ part = "listeners" /\ ListenersNext /\ UNCHANGED <<vars, combo_vars>>
       \/ part = "combo" /\ ComboNext /\ UNCHANGED <<vars, listeners_vars>>
\* The work queue runs what it has to, and time passes.
AllFairness ==
    /\ WF_vars(part = "macro" /\ AddOne) /\ WF_vars(part = "macro" /\ Loop)
    /\ WF_vars(part = "macro" /\ Invoke) /\ WF_vars(part = "macro" /\ Tick)
AllSpec == AllInit /\ [][AllNext]_AllVars /\ AllFairness
=============================================================================

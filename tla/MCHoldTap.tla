------------------------------ MODULE MCHoldTap ------------------------------
(***************************************************************************)
(* Instances of HoldTap, three keys and hold-tap configurations that       *)
(* between them use every flavor and option of behavior_hold_tap_config;   *)
(* and of Pointing.  They share no state: in each behavior one of them     *)
(* moves, chosen initially, and the other rests in an initial state.       *)
(***************************************************************************)
EXTENDS HoldTap, Pointing, TLC

CONSTANTS p1, p2, p3

Basic == [flavor |-> "hold-preferred", term |-> 1, quick |-> -1, idle |-> -1,
          undecided_hold |-> FALSE, linger |-> FALSE, retro |-> FALSE,
          trigger_on_release |-> FALSE, triggers |-> {}]
Of(flavor) == [Basic EXCEPT !.flavor = flavor]

ThreeKeys == {p1, p2, p3}
With(c, ms, n) == [cfg |-> c, mods |-> ms, presses |-> n]

\* two or three home-row modifiers
TwoBalanced ==
    With((p1 :> Of("balanced")) @@ (p2 :> [Of("balanced") EXCEPT !.term = 2]), {}, 3)
ThreePreferring ==
    With((p1 :> Of("tap-preferred")) @@ (p2 :> Of("hold-preferred"))
            @@ (p3 :> Of("tap-unless-interrupted")), {}, 3)
\* with a modifier key and a plain key
OneTapPreferred == With(p1 :> [Of("tap-preferred") EXCEPT !.term = 2], {p3}, 3)
\* retro-tap and positional hold, decided by the release of the other key
PositionalRetro ==
    With((p1 :> [Of("balanced") EXCEPT !.triggers = {p3}, !.trigger_on_release = TRUE])
            @@ (p2 :> [Of("tap-preferred") EXCEPT !.retro = TRUE, !.triggers = {p1}]), {}, 3)
\* quick-tap and require-prior-idle
Quick ==
    With((p1 :> [Of("balanced") EXCEPT !.quick = 2])
            @@ (p2 :> [Of("hold-preferred") EXCEPT !.idle = 2]), {}, 3)
\* hold-while-undecided
Undecided ==
    With((p1 :> [Of("tap-preferred") EXCEPT !.undecided_hold = TRUE])
            @@ (p2 :> [Of("balanced") EXCEPT !.undecided_hold = TRUE, !.retro = TRUE]), {}, 3)
Working == {TwoBalanced, ThreePreferring, OneTapPreferred, PositionalRetro, Quick, Undecided}

\* an option that the code does not get right
Lingering == With(p1 :> [Basic EXCEPT !.undecided_hold = TRUE, !.linger = TRUE], {}, 2)
Linger == {Lingering}

\* Two mouse keys that share a button, arrows that cancel each other out, and a
\* device on the peripheral whose listener scales, swaps, remaps or is overridden.
Scaler(codes, mul, div, track) ==
    [kind |-> "scaler", type |-> "rel", codes |-> codes, mul |-> mul, div |-> div, track |-> track]
Inverter == [kind |-> "transform", type |-> "rel", codes |-> {"x", "y"}, swap |-> TRUE, invert |-> {"y"}]
Mapper(type, from, to) == [kind |-> "mapper", type |-> type, codes |-> {from}, to |-> to]
RunsBehavior(button, fails) == [kind |-> "behaviors", type |-> "key", codes |-> {button}, fails |-> fails]
Override(of, processors, next) == [layers |-> of, processors |-> processors, next |-> next]

Mouse(devices, buttons, codes, overrides, base) ==
    [overrides |-> overrides, base |-> base, remote |-> <<>>, devices |-> devices,
     buttons |-> buttons, codes |-> codes, smooth |-> FALSE, tracked |-> 1,
     inputs |-> IF buttons = {} /\ "split" \in devices THEN 4 ELSE 3]
TwoMouseKeys == Mouse({"keys", "arrows"}, {}, {}, <<>>, <<>>)
SomeMice ==
  {Mouse({"split"}, {}, {"x", "wheel"}, <<>>, <<Scaler({"x", "wheel"}, 2, 3, TRUE)>>),
   [Mouse({"split"}, {}, {"x", "wheel"}, <<>>, <<Scaler({"x"}, 1, 2, TRUE)>>)
      EXCEPT !.smooth = TRUE, !.inputs = 2, !.remote = <<Inverter, Scaler({"y"}, -3, 2, FALSE)>>],
   TwoMouseKeys,
   [Mouse({"keys", "split", "host"}, {1, 2}, {}, <<>>, <<RunsBehavior(2, FALSE)>>) EXCEPT !.tracked = 2],
   Mouse({"split"}, {1, 2}, {"x"},
         <<Override({1, 2}, <<Mapper("key", 1, 2), Scaler({"x"}, 2, 1, TRUE)>>, TRUE),
           Override({2}, <<RunsBehavior(2, TRUE)>>, FALSE)>>,
         <<Mapper("rel", "x", "wheel")>>)}
TwoKeys == [k1 |-> {1}, k2 |-> {1, 2}]
ThreeArrows == {"left", "right", "up"}
Speeds == [left |-> [x |-> -3, y |-> 0], right |-> [x |-> 3, y |-> 0], up |-> [x |-> 2, y |-> -5]]
SomeRates == {-1, 2}

CONSTANT Parts
VARIABLE part    \* what moves: "holdtap" or "pointing"
AllVars == <<part, vars, pointing_vars>>

AllInit ==
    /\ part \in Parts /\ Init /\ PointingInit
    /\ part = "holdtap" \/ keyboard = OneTapPreferred
    /\ part = "pointing" \/ build = TwoMouseKeys
AllNext ==
    /\ UNCHANGED part
    /\ \/ part = "holdtap" /\ Next /\ UNCHANGED pointing_vars
       \/ part = "pointing" /\ PointingNext /\ UNCHANGED vars
\* The fairness of what moves.
AllFairness ==
    /\ WF_vars(part = "holdtap" /\ Running) /\ WF_vars(part = "holdtap" /\ Tick)
    /\ \A i \in Slots : WF_vars(part = "holdtap" /\ Timer(i))
AllSpec == AllInit /\ [][AllNext]_AllVars /\ AllFairness
=============================================================================

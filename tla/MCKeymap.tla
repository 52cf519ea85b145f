------------------------------ MODULE MCKeymap ------------------------------
(***************************************************************************)
(* Instances of Keymap, small keymaps in which pressing one layer key      *)
(* changes what the others do; of KeymapSettings; and of Lights.  They     *)
(* share no state: in each behavior one of them moves, chosen initially,   *)
(* and the others rest in one of their initial states.                     *)
(***************************************************************************)
EXTENDS Keymap, KeymapSettings, Lights, TLC

CONSTANTS p1, p2, p3    \* key positions

Bind(behavior, layer, locking) ==
    [behavior |-> behavior, layer |-> layer, locking |-> locking]
mo(l)  == Bind("mo", l, FALSE)
tog(l) == Bind("tog", l, TRUE)
to(l)  == Bind("to", l, TRUE)
trans  == Bind("trans", 0, FALSE)
none   == Bind("none", 0, FALSE)
Row(x, y, z) == (p1 :> x) @@ (p2 :> y) @@ (p3 :> z)

\* four layers, the last one conditional on 1 and 2 and kept for Studio to add; one binding
\* names a layer that does not exist
TriLayer == { [ifs |-> {1, 2}, then |-> 3] }
TriLayerKeymap ==
    (0 :> Row(mo(1), mo(2), tog(1))) @@
    (1 :> Row(none,  mo(2), trans))  @@
    (2 :> Row(mo(1), trans, to(1)))  @@
    (3 :> Row(mo(4), none, trans))

SomeBindings == {<<2, p1>>}

\* three layers, the two upper ones momentary
MoKeymap ==
    (0 :> Row(mo(1), mo(2), none)) @@
    (1 :> Row(trans, mo(2), none)) @@
    (2 :> Row(mo(1), trans, mo(1)))

NoConds == {}
NoBindings == {}

\* the settings of three layers, one of them reserved, and of two positions that the second
\* physical layout swaps
TwoPositions == 0 .. 1
TwoLayouts == 0 .. 1
\* what a reset compares of three bindings: two look the same
SomeBytes == [b \in AnyBinding |-> b \in Bindings /\ b # "alike"]
Swapping == [i \in TwoLayouts |-> [p \in TwoPositions |-> IF i = 0 THEN p ELSE 1 - p]]

\* the lights of one keyboard or of two halves, with the options that matter
LightsOf(bl, ug, ext, lit, split) == [bl |-> bl, ug |-> ug, ext |-> ext, on |-> lit, split |-> split]
Both == {"bl", "ug"}
NoAutoOff == LightsOf({}, {}, TRUE, Both, FALSE)
SomeLights == { NoAutoOff,
                LightsOf({"idle"}, {"idle"}, TRUE, Both, FALSE),
                LightsOf({"idle", "usb"}, {"usb"}, FALSE, Both, FALSE),
                LightsOf({"idle"}, {}, TRUE, {"bl"}, TRUE) }

CONSTANT Parts
VARIABLE part    \* what moves: "keymap", "settings" or "lights"
AllVars == <<part, kvars, settings_vars, lights_vars>>

AllInit ==
    /\ part \in Parts /\ KInit /\ SettingsInit /\ LightsInit
    /\ part = "lights" \/ build = NoAutoOff
AllNext ==
    /\ UNCHANGED part
    /\ \/ part = "keymap" /\ KNext /\ UNCHANGED <<settings_vars, lights_vars>>
       \/ part = "settings" /\ SettingsNext /\ UNCHANGED <<kvars, lights_vars>>
       \/ part = "lights" /\ LightsNext /\ UNCHANGED <<kvars, settings_vars>>
AllSpec == AllInit /\ [][AllNext]_AllVars

\* The layers recorded at a press are read until the release only.
AllButOldRecords ==
    <<part, vars, zmk_keymap, orders, down, held, edits, surprised,
      [p \in down |-> active_layers[p]], settings_vars, lights_vars>>
=============================================================================

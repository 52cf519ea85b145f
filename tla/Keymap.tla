------------------------------- MODULE Keymap -------------------------------
(***************************************************************************)
(* The keymap (src/app/src/keymap.c): key positions, the bindings of the   *)
(* layers, the layer behaviors those bindings invoke, and the edits ZMK    *)
(* Studio makes to the bindings and to the order of the layers while the   *)
(* keyboard is in use.  It drives the layer state of module Layers.        *)
(*                                                                         *)
(* A press records the layer state of the moment for its position; the     *)
(* release of the position is resolved against that record, not against    *)
(* the layers that are active by then.                                     *)
(***************************************************************************)
EXTENDS Layers

CONSTANTS
    Positions,   \* key positions
    Stock,       \* zmk_stock_keymap: [Layers -> [Positions -> Binding]]
    StockLayers, \* layers the devicetree enables; the rest are reserved for Studio
    Edits,       \* the edits Studio makes, a subset of EditKinds
    Rebound,     \* bound: the <<layer, position>> whose bindings Studio edits
    MaxEdits     \* bound: edits that Studio makes

Binding == [behavior : {"trans", "none", "mo", "tog", "tog_on", "tog_off", "to"},
            layer : 0 .. N, locking : BOOLEAN]

\* The "_used" and "_removed" kinds are those requests as the Studio client
\* makes them: moves between entries in use, undoing a removal where it was.
\* The code itself takes any index and any id ("move", "restore").
EditKinds == {"bind", "add", "remove", "move", "move_used", "restore", "restore_removed"}

ASSUME KeymapAssumption ==
    /\ Stock \in [Layers -> [Positions -> Binding]]
    /\ StockLayers \in 1 .. N
    /\ Edits \subseteq EditKinds /\ Rebound \subseteq Layers \X Positions /\ MaxEdits \in Nat

INVAL == N     \* ZMK_KEYMAP_LAYER_ID_INVAL: a free entry of the layer order

VARIABLES
    zmk_keymap,     \* the bindings in use
    orders,         \* keymap_layer_orders: layer index -> layer id
    active_layers,  \* zmk_keymap_active_behavior_layer: position -> layer state
    down,           \* positions that are physically down
    held,           \* position that is down -> the layer and binding that had its press
    edits,          \* edits made so far
    surprised       \* a key was down at one of them (history)

keyVars == <<zmk_keymap, orders, active_layers, down, held, edits, surprised>>
kvars == <<vars, keyVars>>

\* the result of a press or a release that no layer handles (-ENOTSUP)
Unhandled == [layer |-> INVAL, binding |-> [behavior |-> "none", layer |-> N, locking |-> FALSE]]

-----------------------------------------------------------------------------
\* LAYER_ID_TO_INDEX; no index when the id is not in the order
IndexOf(o, id) == {i \in Layers : o[i] = id /\ \A j \in Layers : o[j] = id => i <= j}

\* The layers the loop of zmk_keymap_position_state_changed gives the event to:
\* from the last index down to the default layer's, those on in state st whose
\* binding is not transparent.  Empty when the default layer is not in the order.
Answering(p, st) ==
    {i \in Layers :
        /\ \E d \in IndexOf(orders, Default) : i >= d
        /\ orders[i] # INVAL
        /\ orders[i] \in st \/ orders[i] = Default
        /\ zmk_keymap[orders[i]][p].behavior # "trans"}

\* The topmost one consumes the event.
Resolve(p, st) ==
    IF Answering(p, st) = {} THEN Unhandled
    ELSE LET top == CHOOSE i \in Answering(p, st) : \A j \in Answering(p, st) : j <= i
         IN  [layer |-> orders[top], binding |-> zmk_keymap[orders[top]][p]]

\* on_..._binding_pressed and on_..._binding_released of the layer behaviors
PressOp(b) ==
    CASE b.behavior \in {"mo", "tog_on"} -> "activate"
      [] b.behavior = "tog_off" -> "deactivate"
      [] b.behavior = "tog" -> "toggle"
      [] b.behavior = "to" -> "to"
      [] OTHER -> "none"
ReleaseOp(b) == IF b.behavior = "mo" THEN "deactivate" ELSE "none"

Invoke(b, op) == Serve([op |-> op, layer |-> b.layer, locking |-> b.locking])

-----------------------------------------------------------------------------
\* load_stock_keymap_layer_ordering and reload_from_stock_keymap
KInit ==
    /\ Init
    /\ zmk_keymap = Stock
    /\ orders = [i \in Layers |-> IF i < StockLayers THEN i ELSE INVAL]
    /\ active_layers = [p \in Positions |-> {}]
    /\ down = {}
    /\ held = [p \in Positions |-> Unhandled]
    /\ edits = 0 /\ surprised = FALSE

Press(p) ==
    /\ p \notin down
    /\ down' = down \cup {p}
    /\ active_layers' = [active_layers EXCEPT ![p] = layer_state]
    /\ held' = [held EXCEPT ![p] = Resolve(p, layer_state)]
    /\ LET b == Resolve(p, layer_state).binding IN Invoke(b, PressOp(b))
    /\ UNCHANGED <<zmk_keymap, orders, edits, surprised>>

\* mutant of Release: resolved against the layers active at the release
Release_CurrentLayers(p) ==
    /\ p \in down
    /\ down' = down \ {p}
    /\ held' = [held EXCEPT ![p] = Unhandled]
    /\ LET b == Resolve(p, layer_state).binding IN Invoke(b, ReleaseOp(b))
    /\ UNCHANGED <<zmk_keymap, orders, active_layers, edits, surprised>>

Release(p) ==
    /\ p \in down
    /\ down' = down \ {p}
    /\ held' = [held EXCEPT ![p] = Unhandled]
    /\ LET b == Resolve(p, active_layers[p]).binding IN Invoke(b, ReleaseOp(b))
    /\ UNCHANGED <<zmk_keymap, orders, active_layers, edits, surprised>>

\* Studio's requests run on its own thread: between any two steps of the keymap.
Edit(kind) ==
    /\ kind \in Edits /\ edits < MaxEdits
    /\ edits' = edits + 1
    /\ surprised' = (surprised \/ down # {})
    /\ UNCHANGED <<vars, active_layers, down, held>>

\* zmk_keymap_set_layer_binding_at_idx
SetLayerBinding(l, p, b) ==
    /\ Edit("bind")
    /\ zmk_keymap' = [zmk_keymap EXCEPT ![l][p] = b]
    /\ UNCHANGED orders

\* zmk_keymap_move_layer: the entries between the two indices shift by one
MoveLayer(s, d) ==
    /\ \/ Edit("move")
       \/ Edit("move_used") /\ INVAL \notin {orders[s], orders[d]}
    /\ orders' = [i \in Layers |->
                    CASE i = d -> orders[s]
                      [] s <= i /\ i < d -> orders[i + 1]
                      [] d < i /\ i <= s -> orders[i - 1]
                      [] OTHER -> orders[i]]
    /\ UNCHANGED zmk_keymap

\* mutant of AddLayer: the free index itself is taken as the id
AddLayer_IndexAsId ==
    /\ Edit("add")
    /\ \E i \in IndexOf(orders, INVAL) : orders' = [orders EXCEPT ![i] = i]
    /\ UNCHANGED zmk_keymap

\* zmk_keymap_add_layer: the lowest id not seen before the first free index;
\* -ENOSPC when there is none
AddLayer ==
    /\ Edit("add")
    /\ \E i \in IndexOf(orders, INVAL) :
         \E id \in Layers \ {orders[j] : j \in 0 .. i - 1} :
            /\ \A k \in Layers \ {orders[j] : j \in 0 .. i - 1} : id <= k
            /\ orders' = [orders EXCEPT ![i] = id]
    /\ UNCHANGED zmk_keymap

\* zmk_keymap_remove_layer
RemoveLayer(s) ==
    /\ Edit("remove")
    /\ orders[s] # INVAL
    /\ orders' = [i \in Layers |-> CASE i < s -> orders[i]
                                     [] i = N - 1 -> INVAL
                                     [] OTHER -> orders[i + 1]]
    /\ UNCHANGED zmk_keymap

\* zmk_keymap_restore_layer: the entries from at on shift up, the last is lost
RestoreLayer(id, at) ==
    /\ \/ Edit("restore")
       \/ /\ Edit("restore_removed")
          /\ \A i \in Layers : orders[i] # id
          /\ \A i \in 0 .. at - 1 : orders[i] # INVAL
    /\ orders' = [i \in Layers |-> CASE i < at -> orders[i]
                                     [] i = at -> id
                                     [] OTHER -> orders[i - 1]]
    /\ UNCHANGED zmk_keymap

Studio ==
    \/ \E lp \in Rebound : \E b \in {Stock[m][lp[2]] : m \in Layers} \ {zmk_keymap[lp[1]][lp[2]]} :
            SetLayerBinding(lp[1], lp[2], b)
    \/ \E s \in Layers : \E d \in Layers \ {s} : MoveLayer(s, d)
    \/ AddLayer
    \/ \E s \in Layers : RemoveLayer(s)
    \/ \E id, at \in Layers : RestoreLayer(id, at)

KNext ==
    \/ \E p \in Positions : Press(p) \/ Release(p)
    \/ Work /\ UNCHANGED keyVars
    \/ Studio

KSpec == KInit /\ [][KNext]_kvars

-----------------------------------------------------------------------------
KTypeOK ==
    /\ TypeOK
    /\ zmk_keymap \in [Layers -> [Positions -> Binding]]
    /\ orders \in [Layers -> Layers \cup {INVAL}]
    /\ active_layers \in [Positions -> SUBSET Layers]
    /\ down \subseteq Positions
    /\ held \in [Positions -> [layer : Layers \cup {INVAL}, binding : Binding]]
    /\ edits \in 0 .. MaxEdits /\ surprised \in BOOLEAN

\* l is switched on momentarily by a key that is down
HeldBy(l) == \E p \in down : held[p].binding.behavior = "mo" /\ held[p].binding.layer = l

(***************************************************************************)
(* No stuck layer: between two key events every layer that is on, and that *)
(* neither a locking behavior nor a conditional layer holds on, is the     *)
(* default layer or the layer of a momentary key that is still down --     *)
(* whatever layers came and went between the press and the release of each *)
(* key, and whatever Studio has edited while no key was down.  (For        *)
(* keymaps whose toggle and to behaviors are locking, as the stock ones    *)
(* are.)                                                                   *)
(***************************************************************************)
NoStuckLayer ==
    Quiet /\ ~surprised =>
        \A l \in layer_state \ (layer_locks \cup ThenLayers \cup {Default}) : HeldBy(l)

(***************************************************************************)
(* The comment on zmk_keymap_active_behavior_layer: the release of a key   *)
(* goes to the behavior of the layer that had its press.                   *)
(***************************************************************************)
ReleaseGoesToPressedLayer ==
    \A p \in down : Resolve(p, active_layers[p]).layer = held[p].layer

(***************************************************************************)
(* The layer order never gives one layer two indices, and its free entries *)
(* are the last ones: what zmk_keymap_add_layer relies on.                 *)
(***************************************************************************)
OrderWellFormed ==
    \A i, j \in Layers : i < j =>
        /\ orders[j] # INVAL => orders[i] # INVAL
        /\ orders[i] # INVAL => orders[i] # orders[j]

(* A layer is on because of a key, a condition or a lock that is there, and the   *)
(* order of the layers stays one.                                                 *)
LayersAccounted == KTypeOK /\ NoStuckLayer /\ OrderWellFormed
=============================================================================

--------------------------- MODULE KeymapSettings ---------------------------
(***************************************************************************)
(* What ZMK Studio edits and what the settings keep of it: the bindings,   *)
(* order and names of the layers (keymap.c) and the selected physical      *)
(* layout (physical_layouts.c), behind the requests of                     *)
(* studio/keymap_subsystem.c and "reset settings" of core_subsystem.c.     *)
(*                                                                         *)
(* The requests come one at a time on the RPC thread.  An edit is one      *)
(* step.  Saving and resetting write one setting per step: a write may     *)
(* fail, which ends the request, and the keyboard may restart in between.  *)
(* k.ram is the program's state (ram.sorder is settings_layer_orders,      *)
(* ram.known is saved_selected_index), k.flash the settings, k.doing the   *)
(* request being served and its progress, k.told the last                  *)
(* unsaved_changes_status_changed.                                         *)
(***************************************************************************)
EXTENDS Integers, FiniteSets, Sequences, SequencesExt

CONSTANTS
    LayersLen,   \* ZMK_KEYMAP_LAYERS_LEN, the reserved layers included
    EnabledLayers, \* number of layers that are enabled in the stock keymap
    KeyPositions,   \* key positions, 0..ZMK_KEYMAP_LEN - 1
    Bindings,    \* the bindings a client may set
    StockBinding,       \* the binding of every position in the stock keymap
    Compared,    \* [AnyBinding -> what the bytes hold that a reset compares]
    Names,       \* the names a client may give
    StockName,   \* the name of every layer in the stock keymap
    Layouts,     \* physical layouts, 0 is the default
    PosMap,      \* [Layouts -> [Positions -> Positions]], to stock positions
    NoSetting,   \* a setting that is not there
    MaxChanges, MaxFailures, MaxRestarts    \* bounds

Inval == 255
Ids == 0..LayersLen - 1
Idx == 1..LayersLen               \* order[i + 1] is keymap_layer_orders[i]
Orders == [Idx -> Ids \union {Inval}]
AnyBinding == Bindings \union {StockBinding}

\* zmk_keymap_layers_state_t has a bit for each layer.
ASSUME KeymapSettingsAssumption ==
    /\ LayersLen \in 1..32 /\ EnabledLayers \in 1..LayersLen
    /\ StockBinding \notin Bindings /\ StockName \notin Names
    /\ KeyPositions \subseteq Nat /\ Layouts \subseteq Nat /\ 0 \in Layouts
    /\ \A i \in Layouts : PosMap[i] \in [KeyPositions -> KeyPositions]
    /\ NoSetting \notin AnyBinding /\ NoSetting \notin Layouts /\ NoSetting \notin Orders

VARIABLES
    k, changes, failures, restarts,
    unread    \* settings that the last load failed to read, while they are not written again; a
              \* history: [bind |-> set of <<layer, position>>, order |-> BOOLEAN]
settings_vars == <<k, changes, failures, restarts, unread>>

-----------------------------------------------------------------------------
(* Loading. *)
StockOrder == [i \in Idx |-> IF i <= EnabledLayers THEN i - 1 ELSE Inval]
StockMap == [l \in Ids |-> [p \in KeyPositions |-> StockBinding]]

LoadedMap(f) ==
    [l \in Ids |-> [p \in KeyPositions |-> IF f.bind[l][p] = NoSetting THEN StockBinding ELSE f.bind[l][p]]]
LoadedOrder(f) == IF f.order = NoSetting THEN StockOrder ELSE f.order

\* load_stock_keymap_layer_ordering: settings_layer_orders is set for stock layers only.
StockSorder(sorder) == [i \in Idx |-> IF i <= EnabledLayers THEN i - 1 ELSE sorder[i]]
LoadedSorder(f, sorder) == IF f.order = NoSetting THEN StockSorder(sorder) ELSE f.order

LoadedNames(f, names) == [l \in Ids |-> IF f.name[l] = NoSetting THEN names[l] ELSE f.name[l]]

NothingPending == [l \in Ids |-> {}]

Boot(f) ==
    [map |-> LoadedMap(f), pending |-> NothingPending,
     order |-> LoadedOrder(f), sorder |-> LoadedSorder(f, [i \in Idx |-> 0]),
     names |-> LoadedNames(f, [l \in Ids |-> StockName]), changed |-> {},
     layout |-> IF f.layout = NoSetting THEN 0 ELSE f.layout,
     known |-> IF f.layout = NoSetting THEN -1 ELSE f.layout]

EmptyFlash ==
    [bind |-> [l \in Ids |-> [p \in KeyPositions |-> NoSetting]], order |-> NoSetting,
     name |-> [l \in Ids |-> NoSetting], layout |-> NoSetting]

AllRead == [bind |-> {}, order |-> FALSE]

Idle == [what |-> "idle", at |-> 0, todo |-> {}]

SettingsInit ==
    /\ k = [ram |-> Boot(EmptyFlash), flash |-> EmptyFlash, doing |-> Idle, told |-> FALSE]
    /\ changes = 0 /\ failures = 0 /\ restarts = 0 /\ unread = AllRead

-----------------------------------------------------------------------------
(* Edits, each a request that raises a notification when it succeeds. *)

\* mutant of SetBinding: the pending bit is that of the index in the selected layout
SetBinding_PendingAtIndex(r, l, b, v) ==
    LET p == PosMap[r.layout][b]
    IN  IF r.map[l][p] = v THEN r
        ELSE [r EXCEPT !.map[l][p] = v, !.pending[l] = @ \union {b}]

SetBinding(r, l, b, v) ==
    LET p == PosMap[r.layout][b]
    IN  IF r.map[l][p] = v THEN r
        ELSE [r EXCEPT !.map[l][p] = v, !.pending[l] = @ \union {p}]

ClientMovesLayer(r, s, d) ==
    [r EXCEPT !.order = InsertAt(RemoveAt(@, s), d, @[s])]

\* The first free index gets the smallest id that no index before it has.
FreeIndexes(r) == {i \in Idx : r.order[i] = Inval}
UnseenIds(r) == Ids \ {r.order[i] : i \in 1..Min(FreeIndexes(r)) - 1}
CanAdd(r) == FreeIndexes(r) # {} /\ UnseenIds(r) # {}
ClientAddsLayer(r) == [r EXCEPT !.order[Min(FreeIndexes(r))] = Min(UnseenIds(r))]

\* mutant of ClientRemovesLayer: the last index keeps the layer it had
RemoveLayerShort(r, s) ==
    [r EXCEPT !.order = Append(RemoveAt(@, s), @[LayersLen])]

ClientRemovesLayer(r, s) == [r EXCEPT !.order = Append(RemoveAt(@, s), Inval)]

ClientRestoresLayer(r, id, at) == [r EXCEPT !.order = SubSeq(InsertAt(@, at, id), 1, LayersLen)]

SetName(r, l, n) == [r EXCEPT !.names[l] = n, !.changed = @ \union {l}]

SelectLayout(r, i) == [r EXCEPT !.layout = i]

Edited(r) ==
    /\ changes < MaxChanges /\ k.doing.what = "idle"
    /\ k' = [k EXCEPT !.ram = r, !.told = TRUE]
    /\ changes' = changes + 1
    /\ UNCHANGED <<failures, restarts, unread>>

ClientSetsBinding == \E l \in Ids, b \in KeyPositions, v \in AnyBinding :
                       Edited(SetBinding(k.ram, l, b, v))
\* A client moves a layer among those it has been told of.
MoveRequest == \E s, d \in {i \in Idx : k.ram.order[i] # Inval} : s # d /\ Edited(ClientMovesLayer(k.ram, s, d))
AddRequest == CanAdd(k.ram) /\ Edited(ClientAddsLayer(k.ram))
RemoveRequest == \E s \in Idx : k.ram.order[s] # Inval /\ Edited(ClientRemovesLayer(k.ram, s))
\* A client restores a layer that it has removed, at an index it had.
RestoreRequest == \E id \in Ids, at \in Idx :
             /\ id \notin {k.ram.order[i] : i \in Idx} /\ \A i \in 1..at - 1 : k.ram.order[i] # Inval
             /\ Edited(ClientRestoresLayer(k.ram, id, at))
SetLayerProps == \E l \in Ids, n \in Names : Edited(SetName(k.ram, l, n))
SetActiveLayout == \E i \in Layouts \ {k.ram.layout} : Edited(SelectLayout(k.ram, i))

-----------------------------------------------------------------------------
(* Whether anything is unsaved. *)

\* mutant of CheckUnsavedKeymap: the order of the layers is not looked at
CheckUnsavedKeymapBindings(r) == \E l \in Ids : r.pending[l] # {}

CheckUnsavedKeymap(r) == (\E l \in Ids : r.pending[l] # {}) \/ r.sorder # r.order
CheckUnsavedLayout(r) == ~(r.known < 0 \/ r.known = r.layout)
CheckUnsaved(r) == CheckUnsavedKeymap(r) \/ CheckUnsavedLayout(r)

-----------------------------------------------------------------------------
(* Saving: the layout, then bindings in order of layer and position, the    *)
(* order of layers and the names.                                           *)
RpcWork(what) == [what |-> what, at |-> 0, todo |-> {}]

StartSave ==
    /\ k.doing.what = "idle"
    /\ k' = [k EXCEPT !.doing = RpcWork("saveLayout")]
    /\ UNCHANGED <<changes, failures, restarts, unread>>

SaveLayout ==
    /\ k.doing.what = "saveLayout"
    /\ k' = [k EXCEPT !.flash.layout = k.ram.layout, !.doing = RpcWork("saveBindings")]
    /\ UNCHANGED <<changes, failures, restarts, unread>>

\* The first binding that is pending, by layer and then by position.
FirstPending(r) ==
    LET l == Min({i \in Ids : r.pending[i] # {}}) IN <<l, Min(r.pending[l])>>

\* mutant of SaveBinding: the pending bits of the layer are cleared with the first
SaveBinding_ClearsLayer(s, l, p) ==
    [s EXCEPT !.flash.bind[l][p] = s.ram.map[l][p], !.ram.pending[l] = {}]

SaveBinding(s, l, p) ==
    [s EXCEPT !.flash.bind[l][p] = s.ram.map[l][p], !.ram.pending[l] = @ \ {p}]

SaveBindings ==
    /\ k.doing.what = "saveBindings"
    /\ IF \E l \in Ids : k.ram.pending[l] # {}
       THEN LET at == FirstPending(k.ram)
            IN  k' = SaveBinding(k, at[1], at[2]) /\ unread' = [unread EXCEPT !.bind = @ \ {at}]
       ELSE k' = [k EXCEPT !.doing = RpcWork("saveOrder")] /\ UNCHANGED unread
    /\ UNCHANGED <<changes, failures, restarts>>

\* mutant of SaveOrder: the order that was read from the settings is written back
SaveOrderRead(s) == [s EXCEPT !.flash.order = s.ram.sorder, !.ram.sorder = s.ram.order]

SaveOrder(s) == [s EXCEPT !.flash.order = s.ram.order, !.ram.sorder = s.ram.order]

SaveLayerOrder ==
    /\ k.doing.what = "saveOrder"
    /\ k' = [SaveOrder(k) EXCEPT !.doing = [what |-> "saveNames", at |-> 0, todo |-> k.ram.changed]]
    /\ unread' = [unread EXCEPT !.order = FALSE]
    /\ UNCHANGED <<changes, failures, restarts>>

SaveNames ==
    /\ k.doing.what = "saveNames"
    /\ k' = IF k.doing.todo = {}
            THEN [k EXCEPT !.ram.changed = {}, !.doing = Idle, !.told = FALSE]
            ELSE LET l == Min(k.doing.todo)
                 IN  [k EXCEPT !.flash.name[l] = k.ram.names[l], !.doing.todo = @ \ {l}]
    /\ UNCHANGED <<changes, failures, restarts, unread>>

\* A write that fails ends the request, and the client is told of the error.
WriteFails ==
    /\ failures < MaxFailures
    /\ \/ k.doing.what \in {"saveLayout", "saveOrder"}
       \/ k.doing.what = "saveBindings" /\ \E l \in Ids : k.ram.pending[l] # {}
       \/ k.doing.what = "saveNames" /\ k.doing.todo # {}
    /\ k' = [k EXCEPT !.doing = Idle]
    /\ failures' = failures + 1
    /\ UNCHANGED <<changes, restarts, unread>>

-----------------------------------------------------------------------------
(* Discarding: the default layout, then the stock keymap with the settings  *)
(* on top of it.  The names stay where no setting has one.                  *)

Reloaded(r, f) ==
    [r EXCEPT !.layout = 0, !.map = LoadedMap(f), !.order = LoadedOrder(f),
              !.sorder = LoadedSorder(f, @), !.names = LoadedNames(f, @)]
Discarded(s) == [Reloaded(s.ram, s.flash) EXCEPT !.changed = {}, !.pending = NothingPending]

DiscardChanges ==
    /\ changes < MaxChanges /\ k.doing.what = "idle"
    /\ k' = [k EXCEPT !.ram = Discarded(k), !.told = FALSE]
    /\ changes' = changes + 1 /\ unread' = AllRead
    /\ UNCHANGED <<failures, restarts>>

Stored(f) == {at \in Ids \X KeyPositions : f.bind[at[1]][at[2]] # NoSetting}
\* The settings f, of which only some are read.
OnlyRead(f, binds, ordered, named) ==
    [bind |-> [l \in Ids |-> [p \in KeyPositions |-> IF <<l, p>> \in binds THEN f.bind[l][p] ELSE NoSetting]],
     order |-> IF ordered THEN f.order ELSE NoSetting,
     name |-> [l \in Ids |-> IF l \in named THEN f.name[l] ELSE NoSetting],
     layout |-> f.layout]

\* The default layout's key scan does not resume; or the settings are not loaded, or some
\* are: the stock keymap stays where they are not, and what was pending stays pending.
DiscardFails ==
    /\ changes < MaxChanges /\ changes' = changes + 1
    /\ failures < MaxFailures /\ failures' = failures + 1
    /\ k.doing.what = "idle"
    /\ \/ k' = [k EXCEPT !.ram.layout = 0] /\ UNCHANGED unread
       \/ \E binds \in SUBSET Stored(k.flash), ordered \in BOOLEAN, named \in SUBSET Ids :
            /\ k' = [k EXCEPT !.ram = Reloaded(@, OnlyRead(k.flash, binds, ordered, named))]
            /\ unread' = [bind |-> Stored(k.flash) \ binds, order |-> ~ordered]
    /\ UNCHANGED restarts

-----------------------------------------------------------------------------
(* Resetting: the order, then layer by layer its name and the bindings that *)
(* differ from the stock keymap and that a setting was found for.  As many  *)
(* bytes of a binding are compared as a setting has, fewer than a binding   *)
(* has.  The array of the findings is not initialised: a bit may be set     *)
(* that no setting stands for.                                              *)
StartReset ==
    /\ changes < MaxChanges /\ k.doing.what = "idle"
    /\ k' = [k EXCEPT !.flash.order = NoSetting, !.doing = RpcWork("reset")]
    /\ changes' = changes + 1
    /\ UNCHANGED <<failures, restarts, unread>>

Tracked(f, l, garbage) == garbage \union {p \in KeyPositions : f.bind[l][p] # NoSetting}

LooksStock(b) == Compared[b] = Compared[StockBinding]

\* mutant of ClearLayer: what differs from the stock keymap is kept
ClearLayerStock(s, l, garbage) ==
    [s EXCEPT !.flash.name[l] = NoSetting,
              !.flash.bind[l] =
                [p \in KeyPositions |-> IF LooksStock(s.ram.map[l][p]) /\ p \in Tracked(s.flash, l, garbage)
                                        THEN NoSetting ELSE @[p]]]

ClearLayer(s, l, garbage) ==
    [s EXCEPT !.flash.name[l] = NoSetting,
              !.flash.bind[l] =
                [p \in KeyPositions |-> IF ~LooksStock(s.ram.map[l][p]) /\ p \in Tracked(s.flash, l, garbage)
                                        THEN NoSetting ELSE @[p]]]

ResetLayer ==
    /\ k.doing.what = "reset" /\ k.doing.at < LayersLen
    /\ \E garbage \in SUBSET KeyPositions :
         k' = [ClearLayer(k, k.doing.at, garbage) EXCEPT !.doing.at = @ + 1]
    /\ UNCHANGED <<changes, failures, restarts, unread>>

ResetDone ==
    /\ k.doing.what = "reset" /\ k.doing.at = LayersLen
    /\ k' = [k EXCEPT !.ram.order = StockOrder, !.ram.sorder = StockSorder(@),
                      !.ram.map = StockMap, !.doing = Idle]
    /\ UNCHANGED <<changes, failures, restarts, unread>>

Restart ==
    /\ restarts < MaxRestarts
    /\ k' = [k EXCEPT !.ram = Boot(k.flash), !.doing = Idle, !.told = FALSE]
    /\ restarts' = restarts + 1 /\ unread' = AllRead
    /\ UNCHANGED <<changes, failures>>

SettingsNext ==
    \/ ClientSetsBinding \/ MoveRequest \/ AddRequest \/ RemoveRequest \/ RestoreRequest \/ SetLayerProps \/ SetActiveLayout
    \/ StartSave \/ SaveLayout \/ SaveBindings \/ SaveLayerOrder \/ SaveNames \/ WriteFails
    \/ DiscardChanges \/ DiscardFails \/ StartReset \/ ResetLayer \/ ResetDone \/ Restart

SettingsSpec == SettingsInit /\ [][SettingsNext]_settings_vars

-----------------------------------------------------------------------------
(* The types of the state, and the order of layers: ids without repetition
   and no gap before the last of them. *)
SettingsTypeOK ==
    /\ k.ram.map \in [Ids -> [KeyPositions -> AnyBinding]]
    /\ k.ram.pending \in [Ids -> SUBSET KeyPositions]
    /\ k.ram.order \in Orders /\ k.ram.sorder \in Orders
    /\ k.ram.layout \in Layouts /\ k.flash.layout \in Layouts \union {NoSetting}
    /\ \A i \in Idx : k.ram.order[i] # Inval =>
         \A j \in 1..i - 1 : k.ram.order[j] \notin {k.ram.order[i], Inval}

\* A setting that a reset has left although the binding was reset, because it looks like
\* the stock binding in the bytes that are compared.
Overlooked(r, f, l, p) == r.map[l][p] = StockBinding /\ LooksStock(LoadedMap(f)[l][p])
\* A restart brings the binding as it is, or one that a reset overlooked, or a setting that
\* was not read.
ComesBack(r, f, u, l, p) ==
    r.map[l][p] = LoadedMap(f)[l][p] \/ Overlooked(r, f, l, p) \/ <<l, p>> \in u.bind

(* A binding that a restart would not bring back has its pending bit set, so
   that the next save writes it: also when a save, a reset or a discard
   stopped half way, and whichever physical layout was selected when it was
   set.  Two kinds of bindings a restart does change: where a reset overlooked
   a setting that looks like the stock binding, and where a discard failed to
   read a setting. *)
ChangesArePending ==
    k.doing.what # "reset" =>
        \A l \in Ids, p \in KeyPositions :
            ComesBack(k.ram, k.flash, unread, l, p) \/ p \in k.ram.pending[l]

(* When the check of unsaved changes finds none, a restart brings the same
   bindings but for those two kinds, and the same order of layers if an order
   has ever been saved and was read.  Without a saved order this fails: a reset
   leaves settings_layer_orders of the reserved layers as it was. *)
UnsavedIsNotDenied ==
    k.doing.what = "idle" /\ ~CheckUnsaved(k.ram) =>
        /\ \A l \in Ids, p \in KeyPositions : ComesBack(k.ram, k.flash, unread, l, p)
        /\ k.flash.order # NoSetting /\ ~unread.order => k.ram.order = LoadedOrder(k.flash)

SaveCompletes ==
    k.doing.what = "saveNames" /\ k'.doing.what = "idle" /\ failures' = failures
           /\ restarts' = restarts =>
        /\ \A l \in Ids, p \in KeyPositions : ComesBack(k'.ram, k'.flash, unread', l, p)
        /\ LoadedOrder(k'.flash) = k'.ram.order
        /\ k'.flash.layout = k'.ram.layout

(* After a save that succeeds, a restart brings the keymap as it is, but for
   those two kinds of bindings, with the layers in the same order, and the
   layout that is selected. *)
SaveIsComplete == [][SaveCompletes]_settings_vars

(* No change is forgotten: each is pending or saved, and none is denied. *)
ChangesKept == SettingsTypeOK /\ ChangesArePending /\ UnsavedIsNotDenied
=============================================================================

------------------------------ MODULE TempLayer ------------------------------
(***************************************************************************)
(* The temporary layer input processor (input_processor_temp_layer.c): a   *)
(* layer that is on while a pointing device is used.  Input events come in *)
(* the input thread; timers, the work that changes layers, and keys run in *)
(* the system's work queue.  A mutex makes each handler one step; between  *)
(* them is a short queue of actions.                                       *)
(***************************************************************************)
EXTENDS Integers, SequencesExt

CONSTANTS
    Builds,       \* values of build
    Instances,    \* 1 .. n
    TempLayers,       \* beside the default layer 0
    LayerOrders,      \* orders that Studio may bring the layers into: index -> layer
    Positions, MaxActions,  \* CONFIG_ZMK_INPUT_PROCESSOR_TEMP_LAYER_MAX_ACTION_EVENTS
    MaxInputs, MaxKeys      \* bounds

VARIABLES
    build,     \* [excluded |-> excluded_positions, idle |-> is there require_prior_idle_ms]
    order,     \* keymap_layer_orders
    on,        \* active layers of the keymap
    insts,     \* [toggle |-> a layer per instance, active, tapped |-> sets of instances: those that
               \*  have turned their layer on, and those for which a key came too recently]
    armed,     \* layer_disable_works that are scheduled
    actions, submitted,  \* temp_layer_action_msgq, layer_action_work
    turnedOn,  \* layers that the processor has turned on, until they are off
    unsure,    \* has the end of the layer been lost; these two are histories
    inputs, keys
temp_vars == <<build, order, on, insts, armed, actions, submitted, turnedOn, unsure, inputs, keys>>

State == [on |-> on, insts |-> insts, armed |-> armed, turnedOn |-> turnedOn, unsure |-> unsure]
Become(s) == on' = s.on /\ insts' = s.insts /\ armed' = s.armed /\ turnedOn' = s.turnedOn /\ unsure' = s.unsure
LayerActive(s, layer) == layer = 0 \/ layer \in s.on

\* What handle_layer_state_changed takes for the state of an instance's layer.  It converts toggle_layer
\* from an index to an id, although everyone else uses it as an id.
SeenActive(s, i) == LayerActive(s, order[s.insts.toggle[i]])
\* The instances that it judges wrongly while there is an end to lose.
Misjudged(s) ==
    {i \in Instances : /\ SeenActive(s, i) # LayerActive(s, s.insts.toggle[i])
                       /\ i \in s.insts.active \/ s.insts.toggle[i] \in s.armed}
\* The timers that it stops take the end from an activation that still waits.
EndsLost(s, ends) ==
    Misjudged(s) # {} \/ \E a \in ToSet(actions) : a.activate /\ a.layer \in ends

\* handle_layer_state_changed, of every instance.
\* mutant of LayerChanged: the layer counts as active
LayerChanged_Active(s) ==
    LET gone == {i \in Instances : ~SeenActive(s, i)}
        ends == {s.insts.toggle[i] : i \in gone} \cap s.armed
    IN  [s EXCEPT !.armed = @ \ ends, !.unsure = @ \/ EndsLost(s, ends)]
LayerChanged(s) ==
    LET gone == {i \in Instances : ~SeenActive(s, i)}
        ends == {s.insts.toggle[i] : i \in gone} \cap s.armed
    IN  [s EXCEPT !.insts.active = @ \ gone, !.armed = @ \ ends, !.unsure = @ \/ EndsLost(s, ends)]
\* zmk_keymap_layer_activate and _deactivate
SetLayer(s, layer, active) ==
    LET after == IF active THEN s.on \cup {layer} ELSE s.on \ {layer}
    IN  IF after = s.on THEN s ELSE LayerChanged([s EXCEPT !.on = after, !.turnedOn = @ \cap after])

\* update_layer_state
UpdateLayerState(s, i, activate) ==
    LET layer == s.insts.toggle[i]
        new == IF activate /\ ~LayerActive(s, layer) THEN {layer} ELSE {}
    IN  IF (i \in s.insts.active) = activate THEN s
        ELSE SetLayer([s EXCEPT !.insts.active = IF activate THEN @ \cup {i} ELSE @ \ {i}, !.turnedOn = @ \cup new],
                      layer, activate)

\* layer_action_work_cb: every action is for the first instance, and for the layer it toggles now.
Act(s, a) ==
    IF a.activate THEN UpdateLayerState(s, 1, TRUE)
    ELSE IF LayerActive(s, a.layer) THEN UpdateLayerState(s, 1, FALSE) ELSE s
ActionWork ==
    /\ submitted /\ submitted' = FALSE /\ actions' = <<>>
    /\ Become(FoldLeft(Act, State, actions))
    /\ UNCHANGED <<build, order, inputs, keys>>

\* Within 10 ms nobody makes room.
Put(a) == actions' = IF Len(actions) < MaxActions THEN Append(actions, a) ELSE actions

\* layer_disable_callback
\* mutant of DisableCallback: the work is not submitted
DisableCallback_Waits(layer) ==
    /\ layer \in armed /\ armed' = armed \ {layer}
    /\ Put([layer |-> layer, activate |-> FALSE]) /\ submitted' = submitted
    /\ unsure' = (unsure \/ Len(actions) = MaxActions)
    /\ UNCHANGED <<build, order, on, insts, turnedOn, inputs, keys>>
DisableCallback(layer) ==
    /\ layer \in armed /\ armed' = armed \ {layer}
    /\ Put([layer |-> layer, activate |-> FALSE]) /\ submitted' = TRUE
    /\ unsure' = (unsure \/ Len(actions) = MaxActions)
    /\ UNCHANGED <<build, order, on, insts, turnedOn, inputs, keys>>

\* temp_layer_handle_event.  A layer that is left on for another one has no end.
HandleEvent(i, layer) ==
    /\ inputs < MaxInputs /\ inputs' = inputs + 1
    /\ insts' = [insts EXCEPT !.toggle[i] = layer]
    /\ IF i \notin insts.active /\ ~(build.idle /\ i \in insts.tapped)
       THEN /\ Put([layer |-> layer, activate |-> TRUE])
            /\ submitted' = (submitted \/ Len(actions) < MaxActions)
       ELSE UNCHANGED <<actions, submitted>>
    /\ armed' = armed \cup {layer}
    /\ unsure' = \/ unsure \/ i # 1
                 \/ insts.toggle[i] # layer /\ (i \in insts.active \/ \E a \in ToSet(actions) : a.activate)
    /\ UNCHANGED <<build, order, on, turnedOn, keys>>

\* handle_position_state_changed, then handle_keycode_state_changed of the key code it may have
KeyPressed(position) ==
    /\ keys < MaxKeys /\ keys' = keys + 1
    /\ LET ends == build.excluded # {} /\ position \notin build.excluded
           Over(s, i) == IF ends /\ i \in s.insts.active THEN UpdateLayerState(s, i, FALSE) ELSE s
           after == FoldLeft(Over, State, [i \in Instances |-> i])
       IN  \E code \in BOOLEAN :
             Become([after EXCEPT !.insts.tapped = IF code /\ build.idle THEN Instances ELSE @])
    /\ UNCHANGED <<build, order, actions, submitted, inputs>>
\* require_prior_idle_ms after the last key
IdleAgain ==
    /\ insts.tapped # {} /\ insts' = [insts EXCEPT !.tapped = {}]
    /\ UNCHANGED <<build, order, on, armed, actions, submitted, turnedOn, unsure, inputs, keys>>

\* on_mo_keymap_binding_pressed and _released
LayerKey(layer, active) ==
    /\ keys < MaxKeys /\ keys' = keys + 1 /\ Become(SetLayer(State, layer, active))
    /\ UNCHANGED <<build, order, actions, submitted, inputs>>

\* zmk_keymap_move_layer, which raises no event
LayerMoved ==
    /\ order' \in LayerOrders \ {order}
    /\ UNCHANGED <<build, on, insts, armed, actions, submitted, turnedOn, unsure, inputs, keys>>

\* temp_layer_init
TempInit ==
    /\ build \in Builds /\ order \in LayerOrders /\ on = {} /\ armed = {} /\ actions = <<>> /\ submitted = FALSE
    /\ insts = [toggle |-> [i \in Instances |-> 0], active |-> {}, tapped |-> {}]
    /\ turnedOn = {} /\ unsure = FALSE /\ inputs = 0 /\ keys = 0
TempNext ==
    \/ ActionWork \/ IdleAgain \/ LayerMoved
    \/ \E l \in TempLayers : DisableCallback(l) \/ LayerKey(l, TRUE) \/ LayerKey(l, FALSE)
    \/ \E i \in Instances, l \in TempLayers : HandleEvent(i, l)
    \/ \E p \in Positions : KeyPressed(p)
\* Timers expire, and works run.
TempFairness == WF_temp_vars(ActionWork) /\ \A l \in TempLayers : WF_temp_vars(DisableCallback(l))
TempSpec == TempInit /\ [][TempNext]_temp_vars /\ TempFairness

-----------------------------------------------------------------------------
(* An instance that takes its layer to be on is right, whoever else turned it on or off
   in between; and unless its end was lost, the layer it turned on goes off once there is
   no more input.  The end is lost to a full queue, to another layer or instance, to a timer
   that is stopped while an activation waits, and in a keymap whose layers were moved
   to a listener that looks at the wrong layer: then the layer stays on. *)
KnowsItsLayer == ~unsure /\ 1 \in insts.active => LayerActive(State, insts.toggle[1])
TempLayersEnd ==
    /\ [](KnowsItsLayer /\ (1 \in insts.active => <>(1 \notin insts.active \/ unsure)))
    /\ \A layer \in TempLayers : [](layer \in turnedOn => <>(layer \notin turnedOn \/ unsure))
=============================================================================
